---- MODULE Spec2Model ----
(***************************************************************************)
(* A model of the storage-engine primitives of MyBustub:                   *)
(*   - the LRU-K replacer        (src/buffer/lru_k_replacer.cpp)           *)
(*   - the extendible hash table (src/container/hash/...)                  *)
(*   - the B+-tree index and its iterator (src/storage/index/...)          *)
(* Each component is a record variable whose fields carry the names of the *)
(* C++ members; each public method is one action, and the method's body is *)
(* an operator from the object (and the arguments) to the object it leaves *)
(* and its result, so that a statement about a call in a state is a state  *)
(* predicate.                                                              *)
(***************************************************************************)
EXTENDS Integers, Sequences, FiniteSets, TLC

(***************************************************************************)
(* Bounds of the model.                                                    *)
(***************************************************************************)
\* the replacer is constructed with num_frames = NumFrames
NumFrames == 2
\* RecordAccess is no longer called once the clock has reached MaxTime
MaxTime == 7

\* the values of k the replacer is constructed with
KValues == {2, 3}

\* frame ids handed to the replacer: 0 .. num_frames + 1, so that both the
\* boundary id num_frames and an id beyond it occur
FrameIds == 0 .. (NumFrames + 1)

NoFrame == -1

\* keys handed to the hash table: 0 .. MaxKey
MaxKey == 4
\* bucket capacities the hash table is constructed with: 1 .. MaxBucketSize
MaxBucketSize == 2

HKeys == 0 .. MaxKey

\* the caller threads of the hash table: 1 .. NumThreads
NumThreads == 2

Threads == 1 .. NumThreads

\* keys the threads call the hash table with: 0 .. MaxThreadKey
MaxThreadKey == 2

ThreadKeys == 0 .. MaxThreadKey

HValues == {"a", "b"}

\* keys handed to the B+-tree: -NegKeys .. PosKeys
NegKeys == 5
PosKeys == 1

TKeys == (0 - NegKeys) .. PosKeys

\* Insert is no longer called once the tree counts MaxTreeSize items
MaxTreeSize == 7

\* no iterator is made once MaxPins pins are held in the buffer pool
MaxPins == 1

\* the record id stored with a key
TValues == {"rid"}

\* the fanouts the tree is constructed with
LeafMaxSizes == {2, 3}

InternalMaxSizes == {3, 4}

\* what a key slot that was never written can hold: the key of zero-filled
\* memory (0, which orders among the keys), or a residue that orders below
\* or above every key
UninitKeys == {0 - NegKeys - 1, 0, PosKeys + 1}

VARIABLES
  rep,      \* the LRUKReplacer object
  rstatus,  \* "ok", or how the calling thread was lost: "deadlock", "crash"
  racc,     \* per frame: the timestamps of all accesses recorded since the
            \* frame last became untracked (history of the calls, not of the
            \* object: the object keeps history_list_)
  ht,       \* the ExtendibleHashTable object
  hstatus,  \* "ok", or "diverge" once an Insert is in a loop it never leaves
  hlast,    \* per key: the latest Insert or Remove called with it ("never",
            \* "removed" or the value inserted; history of the calls)
  tree,     \* the BPlusTree object and the pages of its buffer pool
  iter,     \* the caller's IndexIterator
  seen,     \* the keys the caller has read through iter, in order (history
            \* of the calls)
  inserted, \* the keys whose Insert returned true and that no Remove was
            \* called with since (history of the calls)
  probe,    \* <<key>> when iter was made by Begin(key), <<>> otherwise
            \* (history of the calls)
  tstatus,  \* "ok", or "crash" once a call on the tree has killed the process
  hlatch,   \* latch_ of the hash table: <<>> when free, <<th>> when thread th
            \* holds it
  hthread,  \* per caller thread of the hash table: the call it is in, the
            \* place it has reached in it and the call's locals
  hseq,     \* the table that the calls completed so far leave when run one
            \* after the other in the order of their returns (history of the
            \* calls)
  spos      \* the number of calls of the scenario made so far, -1 once a
            \* call outside the scenario has been made (history of the calls)

rvars == <<rep, rstatus, racc>>

hvars == <<ht, hstatus, hlast>>

tvars == <<tree, iter, seen, inserted, probe, tstatus>>

cvars == <<hlatch, hthread, hseq>>

svars == <<spos>>

vars ==
  <<rep, rstatus, racc, ht, hstatus, hlast, tree, iter, seen, inserted, probe, tstatus,
    hlatch, hthread, hseq, spos>>

(***************************************************************************)
(* Sequence helpers.                                                       *)
(***************************************************************************)
\* std::list::push_front
PushFront(s, x) == <<x>> \o s

\* the sequence without its i-th element (std::list::erase of one node)
RemoveAt(s, i) == [j \in 1 .. (Len(s) - 1) |-> IF j < i THEN s[j] ELSE s[j + 1]]

\* the sequence with x put before position i (std::list::insert)
InsertAt(s, i, x) ==
  [j \in 1 .. (Len(s) + 1) |-> IF j < i THEN s[j] ELSE IF j = i THEN x ELSE s[j - 1]]

\* the positions of a sequence whose element satisfies Test
Positions(s, Test(_)) == {i \in 1 .. Len(s) : Test(s[i])}

\* F applied to the value of v (v is computed once, however often F uses it)
Bind(v, F(_)) == CHOOSE y \in {F(x) : x \in {v}} : TRUE

SetMax(S) == CHOOSE x \in S : \A y \in S : y <= x

SetMin(S) == CHOOSE x \in S : \A y \in S : x <= y

(***************************************************************************)
(* LRU-K replacer.                                                         *)
(*                                                                         *)
(* size_t members (curr_size_, max_size_) are kept as the representative   *)
(* of their value modulo 2^64 nearest to 0: the code applies only ++, --   *)
(* and == to them, which agree on representatives, so -1 stands for        *)
(* 2^64 - 1.  The two iterator maps less_k_map_ and k_map_ are kept as the *)
(* set of their keys; an entry refers to the node of its key in the list.  *)
(***************************************************************************)
\* LRUKReplacer::LRUKReplacer; ids are the frame ids the callers will use
\* (the per-frame maps are empty at first: a frame without an entry is a
\* frame with count 0, no history and flag false)
NewReplacerOn(ids, num_frames, k) ==
  [ replacer_size_     |-> num_frames,
    max_size_          |-> num_frames,
    k_                 |-> k,
    curr_size_         |-> 0,
    current_timestamp_ |-> 0,
    access_times_      |-> [f \in ids |-> 0],
    history_list_      |-> [f \in ids |-> <<>>],
    evictable_         |-> [f \in ids |-> FALSE],
    lru_less_k_        |-> <<>>,
    less_k_map_        |-> {},
    lru_k_             |-> <<>>,
    k_map_             |-> {} ]

NewReplacer(num_frames, k) == NewReplacerOn(FrameIds, num_frames, k)

\* lines 27-31 and 38-42: the victim's state is erased
EvictErase(r, f) ==
  [r EXCEPT !.access_times_[f] = 0,
            !.history_list_[f] = <<>>,
            !.curr_size_ = @ - 1]

\* the body of LRUKReplacer::Evict (the latch aside)
EvictBody(r) ==
  IF r.curr_size_ = 0
  THEN [rep |-> r, ok |-> FALSE, frame |-> NoFrame]
  ELSE
    LET young  == Positions(r.lru_less_k_, LAMBDA f : r.evictable_[f])
        mature == Positions(r.lru_k_, LAMBDA p : r.evictable_[p[1]])
    IN
      IF young # {}
      THEN \* reverse scan: the evictable frame nearest to the back
        LET f == r.lru_less_k_[SetMax(young)]
        IN [rep   |-> [EvictErase(r, f) EXCEPT
                         !.lru_less_k_ = SelectSeq(@, LAMBDA g : g # f),
                         !.less_k_map_ = @ \ {f}],
            ok    |-> TRUE,
            frame |-> f]
      ELSE IF mature # {}
      THEN \* forward scan: the evictable frame nearest to the front
        LET i == SetMin(mature)
            f == r.lru_k_[i][1]
        IN [rep   |-> [EvictErase(r, f) EXCEPT
                         !.lru_k_ = RemoveAt(@, i),
                         !.k_map_ = @ \ {f}],
            ok    |-> TRUE,
            frame |-> f]
      ELSE [rep |-> r, ok |-> FALSE, frame |-> NoFrame]

\* the position of frame f in a list of frames, 0 when it has no node there
NodeOf(list, f) ==
  LET at == {i \in 1 .. Len(list) : list[i] = f}
  IN IF at = {} THEN 0 ELSE SetMin(at)

\* the position of frame f in lru_k_, 0 when it has no node there
KNodeOf(list, f) ==
  LET at == {i \in 1 .. Len(list) : list[i][1] = f}
  IN IF at = {} THEN 0 ELSE SetMin(at)

\* std::upper_bound over lru_k_ with the comparison on the timestamps: the
\* first position whose timestamp is greater than ts (lru_k_ is kept sorted)
UpperBound(list, ts) ==
  LET above == {i \in 1 .. Len(list) : ts < list[i][2]}
  IN IF above = {} THEN Len(list) + 1 ELSE SetMin(above)

\* (mutant of InsertMature: the frame is put at the front of lru_k_)
InsertMatureAtFront(r, f) ==
  [r EXCEPT !.lru_k_ = PushFront(@, <<f, Head(r.history_list_[f])>>),
            !.k_map_ = @ \cup {f}]

\* lines 73-78 and 85-90: the frame is put into lru_k_ under the front of its
\* history
InsertMature(r, f) ==
  LET kth == <<f, Head(r.history_list_[f])>>
  IN [r EXCEPT !.lru_k_ = InsertAt(@, UpperBound(@, kth[2]), kth),
               !.k_map_ = @ \cup {f}]

\* what a call leaves behind: the object, and how the call ended
\*   "ok" it returned, "throw" it threw, "deadlock" / "crash" it never returned
Outcome(r, res) == [rep |-> r, res |-> res]

\* list.erase(map[f]) where map has no entry for f: operator[] makes a
\* value-initialized iterator and erase dereferences its null node.  The
\* behaviour is undefined: the process is killed, or it runs on with the
\* list as it was.
NullErase(rCrash, rOn) == {Outcome(rCrash, "crash"), Outcome(rOn, "ok")}

\* lines 64-67: a frame seen for the first time is tracked
TrackNew(r, f) ==
  [r EXCEPT !.evictable_[f] = TRUE,
            !.lru_less_k_ = PushFront(@, f),
            !.less_k_map_ = @ \cup {f},
            !.curr_size_ = @ + 1]

\* lines 57-68: the first access of a frame
FirstAccess(r, f) ==
  IF r.curr_size_ = r.max_size_
  THEN \* Evict locks latch_, which this thread holds (line 50): undefined for
       \* std::mutex.  The thread blocks for ever, or the lock reports the
       \* error (std::system_error leaves RecordAccess), or Evict runs (a
       \* build whose mutex calls do nothing, as without the threads library).
    LET e == EvictBody(r)
    IN {Outcome(r, "deadlock"), Outcome(r, "throw")} \cup
       (IF e.ok THEN {Outcome(TrackNew(e.rep, f), "ok")}
                ELSE {Outcome(e.rep, "throw")})
  ELSE {Outcome(TrackNew(r, f), "ok")}

\* lines 69-78: the access that makes the count equal to k_
KthAccess(r, f) ==
  LET i    == NodeOf(r.lru_less_k_, f)
      gone == [r EXCEPT !.lru_less_k_ = IF i = 0 THEN @ ELSE RemoveAt(@, i),
                        !.less_k_map_ = @ \ {f}]
  IN IF f \in r.less_k_map_ /\ i # 0
     THEN {Outcome(InsertMature(gone, f), "ok")}
     ELSE NullErase([r EXCEPT !.less_k_map_ = @ \cup {f}], InsertMature(gone, f))

\* lines 80-90: an access beyond the k_-th
LaterAccess(r, f) ==
  LET r1   == [r EXCEPT !.history_list_[f] = Tail(Append(@, r.current_timestamp_))]
      i    == KNodeOf(r1.lru_k_, f)
      gone == [r1 EXCEPT !.lru_k_ = IF i = 0 THEN @ ELSE RemoveAt(@, i)]
  IN IF f \in r1.k_map_ /\ i # 0
     THEN {Outcome(InsertMature(gone, f), "ok")}
     ELSE NullErase([r1 EXCEPT !.k_map_ = @ \cup {f}], InsertMature(gone, f))

\* LRUKReplacer::RecordAccess: the set of ways the call can end
RecordAccessImpl(r, f) ==
  IF f > r.replacer_size_
  THEN {Outcome(r, "throw")}
  ELSE
    LET r1 == [r EXCEPT !.access_times_[f] = @ + 1,
                        !.current_timestamp_ = @ + 1,
                        !.history_list_[f] = Append(@, r.current_timestamp_ + 1)]
    IN IF r1.access_times_[f] = 1 THEN FirstAccess(r1, f)
       ELSE IF r1.access_times_[f] = r1.k_ THEN KthAccess(r1, f)
       ELSE IF r1.access_times_[f] > r1.k_ THEN LaterAccess(r1, f)
       ELSE {Outcome(r1, "ok")}

\* LRUKReplacer::SetEvictable
SetEvictableImpl(r, f, set_evictable) ==
  IF f > r.replacer_size_ THEN Outcome(r, "throw")
  ELSE IF r.access_times_[f] = 0 THEN Outcome(r, "ok")
  ELSE
    LET oldstatus == r.evictable_[f]
        d == IF oldstatus /\ ~set_evictable THEN -1
             ELSE IF ~oldstatus /\ set_evictable THEN 1
             ELSE 0
    IN Outcome([r EXCEPT !.evictable_[f] = set_evictable,
                         !.curr_size_ = @ + d,
                         !.max_size_ = @ + d], "ok")

\* lines 126-130 and 132-136 and 138: the frame's state is erased
RemoveErase(r, f) ==
  [r EXCEPT !.access_times_[f] = 0,
            !.history_list_[f] = <<>>,
            !.evictable_[f] = FALSE,
            !.curr_size_ = @ - 1]

\* LRUKReplacer::Remove: the set of ways the call can end
RemoveImpl(r, f) ==
  IF f > r.replacer_size_ THEN {Outcome(r, "throw")}
  ELSE IF r.access_times_[f] = 0 THEN {Outcome(r, "ok")}
  ELSE IF ~r.evictable_[f] THEN {Outcome(r, "throw")}
  ELSE IF r.access_times_[f] < r.k_
  THEN
    LET i    == NodeOf(r.lru_less_k_, f)
        r1   == [r EXCEPT !.access_times_[f] = 0, !.history_list_[f] = <<>>]
        done == RemoveErase([r EXCEPT !.lru_less_k_ = IF i = 0 THEN @ ELSE RemoveAt(@, i),
                                      !.less_k_map_ = @ \ {f}], f)
    IN IF f \in r.less_k_map_ /\ i # 0
       THEN {Outcome(done, "ok")}
       ELSE NullErase([r1 EXCEPT !.less_k_map_ = @ \cup {f}], done)
  ELSE
    LET i    == KNodeOf(r.lru_k_, f)
        r1   == [r EXCEPT !.access_times_[f] = 0, !.history_list_[f] = <<>>]
        done == RemoveErase([r EXCEPT !.lru_k_ = IF i = 0 THEN @ ELSE RemoveAt(@, i),
                                      !.k_map_ = @ \ {f}], f)
    IN IF f \in r.k_map_ /\ i # 0
       THEN {Outcome(done, "ok")}
       ELSE NullErase([r1 EXCEPT !.k_map_ = @ \cup {f}], done)

\* LRUKReplacer::Size
Size(r) == r.curr_size_

\* the calls' history of accesses after a call that took the replacer from r
\* to r2; f is the frame of a RecordAccess, NoFrame for the other calls
AccAfter(acc, r, r2, f) ==
  [g \in FrameIds |->
     IF r2.access_times_[g] = 0 THEN <<>>
     ELSE IF g = f /\ r2.current_timestamp_ # r.current_timestamp_
          THEN Append(acc[g], r2.current_timestamp_)
          ELSE acc[g]]

\* how the thread stands after a call that ended with res
StatusAfter(res) == IF res \in {"deadlock", "crash"} THEN res ELSE "ok"

RecordAccess(f) ==
  /\ rstatus = "ok"
  /\ rep.current_timestamp_ < MaxTime
  /\ \E o \in RecordAccessImpl(rep, f) :
       /\ rep' = o.rep
       /\ rstatus' = StatusAfter(o.res)
       /\ racc' = AccAfter(racc, rep, o.rep, f)
  /\ UNCHANGED <<hvars, tvars, cvars, svars>>

SetEvictable(f, b) ==
  /\ rstatus = "ok"
  /\ \E o \in {SetEvictableImpl(rep, f, b)} :
        /\ rep' = o.rep
        /\ rstatus' = StatusAfter(o.res)
        /\ racc' = AccAfter(racc, rep, o.rep, NoFrame)
  /\ UNCHANGED <<hvars, tvars, cvars, svars>>

Remove(f) ==
  /\ rstatus = "ok"
  /\ \E o \in RemoveImpl(rep, f) :
       /\ rep' = o.rep
       /\ rstatus' = StatusAfter(o.res)
       /\ racc' = AccAfter(racc, rep, o.rep, NoFrame)
  /\ UNCHANGED <<hvars, tvars, cvars, svars>>

Evict ==
  /\ rstatus = "ok"
  /\ \E e \in {EvictBody(rep)} :
        /\ rep' = e.rep
        /\ rstatus' = "ok"
        /\ racc' = AccAfter(racc, rep, e.rep, NoFrame)
  /\ UNCHANGED <<hvars, tvars, cvars, svars>>

NextReplacer ==
  \/ \E f \in FrameIds : RecordAccess(f)
  \/ \E f \in FrameIds, b \in BOOLEAN : SetEvictable(f, b)
  \/ \E f \in FrameIds : Remove(f)
  \/ Evict

(***************************************************************************)
(* The replacer in the scenario N = 7, K = 2: the calls of the scenario    *)
(* in their order, and from every state on that way every other call.      *)
(***************************************************************************)
\* the position in a scenario after call c: one further when c is the next
\* call of the scenario, off the scenario otherwise
ScenarioStep(script, pos, c) ==
  IF pos < Len(script) /\ script[pos + 1] = c THEN pos + 1 ELSE -1

\* the frame ids of the scenario's callers: 0 .. N + 1
ScenarioFrames == 0 .. 8

\* RecordAccess of 1,2,3,4,5,6,1,2,3,4,5, then SetEvictable(6, false)
ReplacerScript ==
  [i \in 1 .. 11 |->
     [op |-> "RecordAccess", f |-> <<1, 2, 3, 4, 5, 6, 1, 2, 3, 4, 5>>[i], b |-> FALSE]]
  \o << [op |-> "SetEvictable", f |-> 6, b |-> FALSE] >>

ScenarioRecordAccess(f) ==
  /\ spos >= 0
  /\ rstatus = "ok"
  /\ \E o \in RecordAccessImpl(rep, f) :
       /\ rep' = o.rep
       /\ rstatus' = StatusAfter(o.res)
  /\ spos' = ScenarioStep(ReplacerScript, spos, [op |-> "RecordAccess", f |-> f, b |-> FALSE])
  /\ UNCHANGED racc
  /\ UNCHANGED <<hvars, tvars, cvars>>

ScenarioSetEvictable(f, b) ==
  /\ spos >= 0
  /\ rstatus = "ok"
  /\ rep' = SetEvictableImpl(rep, f, b).rep
  /\ spos' = ScenarioStep(ReplacerScript, spos, [op |-> "SetEvictable", f |-> f, b |-> b])
  /\ UNCHANGED <<rstatus, racc>>
  /\ UNCHANGED <<hvars, tvars, cvars>>

ScenarioRemove(f) ==
  /\ spos >= 0
  /\ rstatus = "ok"
  /\ \E o \in RemoveImpl(rep, f) :
       /\ rep' = o.rep
       /\ rstatus' = StatusAfter(o.res)
  /\ spos' = -1
  /\ UNCHANGED racc
  /\ UNCHANGED <<hvars, tvars, cvars>>

ScenarioEvict ==
  /\ spos >= 0
  /\ rstatus = "ok"
  /\ rep' = EvictBody(rep).rep
  /\ spos' = -1
  /\ UNCHANGED <<rstatus, racc>>
  /\ UNCHANGED <<hvars, tvars, cvars>>

NextReplacerScenario ==
  \/ \E f \in ScenarioFrames : ScenarioRecordAccess(f)
  \/ \E f \in ScenarioFrames, b \in BOOLEAN : ScenarioSetEvictable(f, b)
  \/ \E f \in ScenarioFrames : ScenarioRemove(f)
  \/ ScenarioEvict

(***************************************************************************)
(* Extendible hash table.                                                  *)
(*                                                                         *)
(* dir_ is a sequence of bucket references (slot i of the C++ vector is    *)
(* dir_[i + 1]); bucket holds the Bucket objects by reference.  A bucket   *)
(* that no slot refers to is destroyed (std::shared_ptr); the reference    *)
(* of a bucket is written as the lowest slot that refers to it.            *)
(***************************************************************************)
\* std::hash<int>: the value itself
Hash(key) == key

\* hash & (1 << depth): bit depth of the hash
HashBit(key, depth) == (Hash(key) \div (2 ^ depth)) % 2

\* ExtendibleHashTable::Bucket::Bucket
NewBucket(array_size, depth) == [size_ |-> array_size, depth_ |-> depth, list_ |-> <<>>]

\* ExtendibleHashTable::ExtendibleHashTable (global_depth_ and num_buckets_
\* start at 0 and 1)
NewHashTable(bucket_size) ==
  [ bucket_size_  |-> bucket_size,
    global_depth_ |-> 0,
    num_buckets_  |-> 1,
    dir_          |-> <<0>>,
    bucket        |-> (0 :> NewBucket(bucket_size, 0)) ]

\* ExtendibleHashTable::IndexOf
IndexOf(h, key) == Hash(key) % (2 ^ h.global_depth_)

\* Bucket::IsFull
IsFull(b) == Len(b.list_) = b.size_

\* the position of key in a bucket's list, 0 when it is not there
ItemOf(b, key) ==
  LET at == {i \in 1 .. Len(b.list_) : b.list_[i][1] = key}
  IN IF at = {} THEN 0 ELSE SetMin(at)

\* ExtendibleHashTable::Bucket::Find
BucketFind(b, key) ==
  LET i == ItemOf(b, key)
  IN IF i = 0 THEN [found |-> FALSE, value |-> "none"]
     ELSE [found |-> TRUE, value |-> b.list_[i][2]]

\* ExtendibleHashTable::Bucket::Remove
BucketRemove(b, key) ==
  LET i == ItemOf(b, key)
  IN IF i = 0 THEN [bucket |-> b, ok |-> FALSE]
     ELSE [bucket |-> [b EXCEPT !.list_ = RemoveAt(@, i)], ok |-> TRUE]

\* (mutant of Bucket::Insert: a key that is stored keeps its value)
BucketInsertKeepsValue(b, key, value) ==
  IF IsFull(b) THEN [bucket |-> b, ok |-> FALSE]
  ELSE
    LET i == ItemOf(b, key)
    IN IF i = 0
       THEN [bucket |-> [b EXCEPT !.list_ = PushFront(@, <<key, value>>)], ok |-> TRUE]
       ELSE [bucket |-> b, ok |-> TRUE]

\* ExtendibleHashTable::Bucket::Insert
BucketInsert(b, key, value) ==
  IF IsFull(b) THEN [bucket |-> b, ok |-> FALSE]
  ELSE
    LET i == ItemOf(b, key)
    IN IF i = 0
       THEN [bucket |-> [b EXCEPT !.list_ = PushFront(@, <<key, value>>)], ok |-> TRUE]
       ELSE [bucket |-> [b EXCEPT !.list_[i] = <<key, value>>], ok |-> TRUE]

\* ExtendibleHashTable::Find
Find(h, key) == BucketFind(h.bucket[h.dir_[IndexOf(h, key) + 1]], key)

\* ExtendibleHashTable::GetGlobalDepth
GetGlobalDepth(h) == h.global_depth_

\* ExtendibleHashTable::GetLocalDepth
GetLocalDepth(h, dir_index) == h.bucket[h.dir_[dir_index + 1]].depth_

\* ExtendibleHashTable::GetNumBuckets
GetNumBuckets(h) == h.num_buckets_

\* ExtendibleHashTable::Remove
HashRemoveImpl(h, key) ==
  LET id == h.dir_[IndexOf(h, key) + 1]
      r  == BucketRemove(h.bucket[id], key)
  IN [ht |-> [h EXCEPT !.bucket[id] = r.bucket], ok |-> r.ok]

\* lines 89-97: the items of a bucket, put one after the other into the new
\* bucket of side bit (0 or 1)
RECURSIVE Distribute(_, _, _, _)
Distribute(items, depth, bit, into) ==
  IF items = <<>> THEN into
  ELSE
    LET item == Head(items)
    IN Distribute(Tail(items), depth, bit,
                  IF HashBit(item[1], depth) = bit
                  THEN BucketInsert(into, item[1], item[2]).bucket
                  ELSE into)

\* (mutant of SplitSlots: the loop starts at dir_index itself)
SplitSlotsFromIndex(h, dir_index, mask) ==
  {i \in 0 .. (Len(h.dir_) - 1) : i >= dir_index /\ (i - dir_index) % mask = 0}

\* lines 98-104: the slots dir_index & (mask - 1), + mask, + 2 * mask, ...
SplitSlots(h, dir_index, mask) ==
  LET first == dir_index % mask
  IN {i \in 0 .. (Len(h.dir_) - 1) : i >= first /\ (i - first) % mask = 0}

\* the buckets that a slot refers to, each under the lowest slot referring to
\* it; refs gives the reference held by each slot, objs the buckets
Owned(refs, objs) ==
  LET name(r) == SetMin({i \in 1 .. Len(refs) : refs[i] = r}) - 1
  IN [dir_   |-> [i \in 1 .. Len(refs) |-> name(refs[i])],
      bucket |-> [n \in {name(refs[i]) : i \in 1 .. Len(refs)} |->
                    objs[refs[CHOOSE i \in 1 .. Len(refs) : name(refs[i]) = n]]]]

\* ExtendibleHashTable::RedistributeBucket; b is the bucket at dir_[dir_index]
RedistributeBucket(h, dir_index) ==
  LET b       == h.bucket[h.dir_[dir_index + 1]]
      mask    == 2 ^ b.depth_
      bucket0 == Distribute(b.list_, b.depth_, 0, NewBucket(h.bucket_size_, b.depth_ + 1))
      bucket1 == Distribute(b.list_, b.depth_, 1, NewBucket(h.bucket_size_, b.depth_ + 1))
      \* references of the two new buckets: none of the old ones
      ref0    == Len(h.dir_)
      ref1    == Len(h.dir_) + 1
      slots   == SplitSlots(h, dir_index, mask)
      refs    == [i \in 1 .. Len(h.dir_) |->
                    IF (i - 1) \in slots
                    THEN (IF ((i - 1) \div mask) % 2 # 0 THEN ref1 ELSE ref0)
                    ELSE h.dir_[i]]
      objs    == [r \in DOMAIN h.bucket \cup {ref0, ref1} |->
                    IF r = ref0 THEN bucket0 ELSE IF r = ref1 THEN bucket1 ELSE h.bucket[r]]
  IN Bind(<<refs, objs>>, LAMBDA ro :
       Bind(Owned(ro[1], ro[2]), LAMBDA own :
         [h EXCEPT !.num_buckets_ = @ + 1, !.dir_ = own.dir_, !.bucket = own.bucket]))

\* (mutant of DoubleDirectory: global_depth_ is not incremented)
DoubleDirectoryDepthKept(h) == [h EXCEPT !.dir_ = @ \o @]

\* lines 114-117: the directory is doubled
DoubleDirectory(h) ==
  [h EXCEPT !.dir_ = @ \o @, !.global_depth_ = @ + 1]

\* the test of Insert's loop never succeeds again: the bucket of the key is
\* full of pairs whose hash is the hash of the key, so that every split puts
\* them into one bucket again
NeverFits(h, key) ==
  LET b == h.bucket[h.dir_[IndexOf(h, key) + 1]]
  IN  IsFull(b) /\ \A i \in 1 .. Len(b.list_) : Hash(b.list_[i][1]) = Hash(key)

\* ExtendibleHashTable::Insert.  The loop is left when the bucket of the key
\* takes the pair; it is never left ("diverge") when the pair never fits.
RECURSIVE HashInsertImpl(_, _, _)
HashInsertImpl(h, key, value) ==
  LET dir_index == IndexOf(h, key)
      id        == h.dir_[dir_index + 1]
      r         == BucketInsert(h.bucket[id], key, value)
  IN IF r.ok THEN [ht |-> [h EXCEPT !.bucket[id] = r.bucket], res |-> "ok"]
     ELSE IF NeverFits(h, key) THEN [ht |-> h, res |-> "diverge"]
     ELSE
       LET h1 == IF h.bucket[id].depth_ = GetGlobalDepth(h) THEN DoubleDirectory(h) ELSE h
       IN Bind(RedistributeBucket(h1, dir_index), LAMBDA h2 : HashInsertImpl(h2, key, value))

HashInsert(key, value) ==
  /\ hstatus = "ok"
  /\ \E o \in {HashInsertImpl(ht, key, value)} :
        /\ ht' = o.ht
        /\ hstatus' = o.res
        /\ hlast' = IF o.res = "ok" THEN [hlast EXCEPT ![key] = value] ELSE hlast
  /\ UNCHANGED <<rvars, tvars, cvars, svars>>

HashRemove(key) ==
  /\ hstatus = "ok"
  /\ ht' = HashRemoveImpl(ht, key).ht
  /\ hlast' = [hlast EXCEPT ![key] = IF @ = "never" THEN @ ELSE "removed"]
  /\ UNCHANGED hstatus
  /\ UNCHANGED <<rvars, tvars, cvars, svars>>

NextHash ==
  \/ \E k \in HKeys, v \in HValues : HashInsert(k, v)
  \/ \E k \in HKeys : HashRemove(k)

(***************************************************************************)
(* The hash table in the scenario with buckets of 2 pairs: the calls of    *)
(* the scenario in their order, and from every state on that way every     *)
(* other call.                                                             *)
(***************************************************************************)
\* the keys and values of the scenario's callers
ScenarioHKeys == 0 .. 20

ScenarioHValues == {"a", "b", "c"}

\* Insert(4, "a"), Insert(12, "b"), Insert(20, "c")
HashScript ==
  << [op |-> "Insert", key |-> 4, value |-> "a"],
     [op |-> "Insert", key |-> 12, value |-> "b"],
     [op |-> "Insert", key |-> 20, value |-> "c"] >>

ScenarioHashInsert(key, value) ==
  /\ spos >= 0
  /\ hstatus = "ok"
  /\ \E o \in {HashInsertImpl(ht, key, value)} :
        /\ ht' = o.ht
        /\ hstatus' = o.res
  /\ spos' = ScenarioStep(HashScript, spos, [op |-> "Insert", key |-> key, value |-> value])
  /\ UNCHANGED hlast
  /\ UNCHANGED <<rvars, tvars, cvars>>

ScenarioHashRemove(key) ==
  /\ spos >= 0
  /\ hstatus = "ok"
  /\ ht' = HashRemoveImpl(ht, key).ht
  /\ spos' = -1
  /\ UNCHANGED <<hstatus, hlast>>
  /\ UNCHANGED <<rvars, tvars, cvars>>

NextHashScenario ==
  \/ \E k \in ScenarioHKeys, v \in ScenarioHValues : ScenarioHashInsert(k, v)
  \/ \E k \in ScenarioHKeys : ScenarioHashRemove(k)

(***************************************************************************)
(* The hash table called from several threads.  A call is taken in steps:  *)
(* the lock, the statements of the body (one step per pass of the test of  *)
(* Insert's loop, per doubling of the directory and per                    *)
(* RedistributeBucket), the return.                                        *)
(***************************************************************************)
\* a thread that is in no call
IdleThread ==
  [pc |-> "idle", op |-> "none", key |-> 0, value |-> "none", dir_index |-> 0,
   ret |-> <<>>]

\* the calls a thread can make on table h
ThreadCalls(h) ==
  {[op |-> "Insert", key |-> k, value |-> v] : k \in ThreadKeys, v \in HValues}
  \cup {[op |-> o, key |-> k, value |-> "none"] : o \in {"Find", "Remove"}, k \in ThreadKeys}
  \cup {[op |-> o, key |-> 0, value |-> "none"] : o \in {"GetGlobalDepth", "GetNumBuckets"}}
  \cup {[op |-> "GetLocalDepth", key |-> i, value |-> "none"] : i \in 0 .. (Len(h.dir_) - 1)}

\* (mutant of CanLock: the method runs without waiting for the mutex)
LockNotAwaited(latch, th) == TRUE

\* std::scoped_lock<std::mutex> lock(latch_), the first statement of every
\* public method: the thread goes on once no thread holds the mutex
CanLock(latch, th) == latch = <<>>

\* a call run alone on table h: the table it leaves and what it returns
SeqApply(h, c) ==
  IF c.op = "Insert"
  THEN LET o == HashInsertImpl(h, c.key, c.value) IN [ht |-> o.ht, ret |-> <<o.res>>]
  ELSE IF c.op = "Remove"
  THEN LET o == HashRemoveImpl(h, c.key) IN [ht |-> o.ht, ret |-> <<o.ok>>]
  ELSE IF c.op = "Find" THEN [ht |-> h, ret |-> <<Find(h, c.key)>>]
  ELSE IF c.op = "GetGlobalDepth" THEN [ht |-> h, ret |-> <<GetGlobalDepth(h)>>]
  ELSE IF c.op = "GetLocalDepth" THEN [ht |-> h, ret |-> <<GetLocalDepth(h, c.key)>>]
  ELSE [ht |-> h, ret |-> <<GetNumBuckets(h)>>]

\* a thread calls a method and takes the lock
ThreadEnter(th) ==
  /\ hthread[th].pc = "idle"
  /\ CanLock(hlatch, th)
  /\ \E c \in ThreadCalls(ht) :
       hthread' = [hthread EXCEPT ![th] =
                     [IdleThread EXCEPT !.pc = "locked", !.op = c.op, !.key = c.key,
                                        !.value = c.value]]
  /\ hlatch' = <<th>>
  /\ UNCHANGED <<ht, hstatus, hlast, hseq>>
  /\ UNCHANGED <<rvars, tvars, svars>>

\* the body of GetGlobalDepth, GetLocalDepth or GetNumBuckets
ThreadGetter(th) ==
  /\ hthread[th].pc = "locked"
  /\ hthread[th].op \in {"GetGlobalDepth", "GetLocalDepth", "GetNumBuckets"}
  /\ hthread' = [hthread EXCEPT ![th].pc = "done",
                                ![th].ret = SeqApply(ht, hthread[th]).ret]
  /\ UNCHANGED <<ht, hstatus, hlast, hlatch, hseq>>
  /\ UNCHANGED <<rvars, tvars, svars>>

\* the body of Find
ThreadFind(th) ==
  /\ hthread[th].pc = "locked"
  /\ hthread[th].op = "Find"
  /\ hthread' = [hthread EXCEPT ![th].pc = "done",
                                ![th].ret = <<Find(ht, hthread[th].key)>>]
  /\ UNCHANGED <<ht, hstatus, hlast, hlatch, hseq>>
  /\ UNCHANGED <<rvars, tvars, svars>>

\* the body of Remove
ThreadRemove(th) ==
  /\ hthread[th].pc = "locked"
  /\ hthread[th].op = "Remove"
  /\ ht' = HashRemoveImpl(ht, hthread[th].key).ht
  /\ hthread' = [hthread EXCEPT ![th].pc = "done",
                                ![th].ret = <<HashRemoveImpl(ht, hthread[th].key).ok>>]
  /\ UNCHANGED <<hstatus, hlast, hlatch, hseq>>
  /\ UNCHANGED <<rvars, tvars, svars>>

\* Insert, line 111: the test of the loop; when the bucket does not take the
\* pair, line 112 keeps the index
ThreadInsertTest(th) ==
  /\ hthread[th].pc \in {"locked", "again"}
  /\ hthread[th].op = "Insert"
  /\ LET dir_index == IndexOf(ht, hthread[th].key)
         id == ht.dir_[dir_index + 1]
         r  == BucketInsert(ht.bucket[id], hthread[th].key, hthread[th].value)
     IN  IF r.ok
         THEN /\ ht' = [ht EXCEPT !.bucket[id] = r.bucket]
              /\ hthread' = [hthread EXCEPT ![th].pc = "done", ![th].ret = <<"ok">>]
         ELSE /\ ht' = ht
              /\ hthread' = [hthread EXCEPT
                               ![th].dir_index = dir_index,
                               ![th].pc = IF NeverFits(ht, hthread[th].key) THEN "diverge"
                                          ELSE IF ht.bucket[id].depth_ = GetGlobalDepth(ht)
                                               THEN "double"
                                               ELSE "split"]
  /\ UNCHANGED <<hstatus, hlast, hlatch, hseq>>
  /\ UNCHANGED <<rvars, tvars, svars>>

\* Insert, lines 113-118: the directory is doubled
ThreadInsertDouble(th) ==
  /\ hthread[th].pc = "double"
  /\ ht' = DoubleDirectory(ht)
  /\ hthread' = [hthread EXCEPT ![th].pc = "split"]
  /\ UNCHANGED <<hstatus, hlast, hlatch, hseq>>
  /\ UNCHANGED <<rvars, tvars, svars>>

\* Insert, line 119: RedistributeBucket
ThreadInsertSplit(th) ==
  /\ hthread[th].pc = "split"
  /\ ht' = RedistributeBucket(ht, hthread[th].dir_index)
  /\ hthread' = [hthread EXCEPT ![th].pc = "again"]
  /\ UNCHANGED <<hstatus, hlast, hlatch, hseq>>
  /\ UNCHANGED <<rvars, tvars, svars>>

\* the method returns: the scoped_lock releases the mutex
ThreadLeave(th) ==
  /\ hthread[th].pc = "done"
  /\ hlatch' = <<>>
  /\ hseq' = SeqApply(hseq, hthread[th]).ht
  /\ hthread' = [hthread EXCEPT ![th] = IdleThread]
  /\ UNCHANGED <<ht, hstatus, hlast>>
  /\ UNCHANGED <<rvars, tvars, svars>>

NextHashThreads ==
  \/ \E th \in Threads : ThreadEnter(th)
  \/ \E th \in Threads : ThreadGetter(th)
  \/ \E th \in Threads : ThreadFind(th)
  \/ \E th \in Threads : ThreadRemove(th)
  \/ \E th \in Threads : ThreadInsertTest(th)
  \/ \E th \in Threads : ThreadInsertDouble(th)
  \/ \E th \in Threads : ThreadInsertSplit(th)
  \/ \E th \in Threads : ThreadLeave(th)

(***************************************************************************)
(* B+-tree index and its iterator.                                         *)
(*                                                                         *)
(* The buffer pool is the sequence of the pages it has handed out: NewPage *)
(* gives the next page id, FetchPage(id) is pages[id].  A page is a record *)
(* of its header fields and array_, the slots 0 .. size - 1 of its array   *)
(* (slot i is array_[i + 1]); an entry is <<key, value>>.  pin_count_[id]  *)
(* is the pin count of page id.  A null page pointer is written            *)
(* INVALID_PAGE_ID.                                                        *)
(***************************************************************************)
INVALID_PAGE_ID == -1

\* the tree after its constructor
NewTree(leaf_max_size, internal_max_size) ==
  [root_page_id_      |-> INVALID_PAGE_ID,
   leaf_max_size_     |-> leaf_max_size,
   internal_max_size_ |-> internal_max_size,
   cur_size_          |-> 0,
   pages              |-> <<>>,
   pin_count_         |-> <<>>,
   unpinned_          |-> <<>>]

\* BufferPoolManager::FetchPage: one more pin on the page
FetchPage(t, page_id) == [t EXCEPT !.pin_count_[page_id] = @ + 1]

\* BufferPoolManager::UnpinPage(page_id, is_dirty): one pin fewer on a pinned
\* page, no pin fewer for a page that is not pinned or an id that names no
\* page; unpinned_ takes the arguments of the call
UnpinPage(t, page_id, is_dirty) ==
  LET t1 == [t EXCEPT !.unpinned_ = Append(@, <<page_id, is_dirty>>)]
  IN  IF page_id \in DOMAIN t.pin_count_ /\ t.pin_count_[page_id] > 0
      THEN [t1 EXCEPT !.pin_count_[page_id] = @ - 1]
      ELSE t1

\* the tree as a call leaves it: unpinned_ lists the UnpinPage calls of one
\* call of the tree or of the iterator
Returned(t) == [t EXCEPT !.unpinned_ = <<>>]

\* BufferPoolManager::NewPage: the page gets the next id and one pin
NewPage(t, page) ==
  [t EXCEPT !.pages = Append(@, page), !.pin_count_ = Append(@, 1)]

\* LeafPage::Init: an empty leaf page
LeafInit(page_id, parent_id, max_size) ==
  [page_type       |-> "LEAF",
   page_id_        |-> page_id,
   parent_page_id_ |-> parent_id,
   max_size_       |-> max_size,
   next_page_id_   |-> INVALID_PAGE_ID,
   array_          |-> <<>>]

\* InternalPage::Init: an empty internal page
InternalInit(page_id, parent_id, max_size) ==
  [page_type       |-> "INTERNAL",
   page_id_        |-> page_id,
   parent_page_id_ |-> parent_id,
   max_size_       |-> max_size,
   next_page_id_   |-> INVALID_PAGE_ID,
   array_          |-> <<>>]

IsLeafPage(p) == p.page_type = "LEAF"

GetSize(p) == Len(p.array_)

GetMinSize(p) == (p.max_size_ + 1) \div 2

IsRootPage(p) == p.parent_page_id_ = INVALID_PAGE_ID

KeyAt(p, index) == p.array_[index + 1][1]

ValueAt(p, index) == p.array_[index + 1][2]

\* comparator_(a, b) < 0
KeyLess(a, b) == a < b

\* InternalPage::Find: the child under the largest slot of 1 .. size - 1
\* whose key is <= key, the slot-0 child when there is none
InternalFind(p, key) ==
  LET J == {j \in 1 .. (GetSize(p) - 1) : ~KeyLess(key, KeyAt(p, j))}
  IN  ValueAt(p, IF J = {} THEN 0 ELSE SetMax(J))

\* LeafPage::Find: whether the leaf holds the key
LeafFind(p, key) == \E i \in 0 .. (GetSize(p) - 1) : KeyAt(p, i) = key

\* the descent loop of TreeTraversal, from page page_id
RECURSIVE FindLeaf(_, _, _)
FindLeaf(t, page_id, key) ==
  IF IsLeafPage(t.pages[page_id]) THEN page_id
  ELSE FindLeaf(t, InternalFind(t.pages[page_id], key), key)

\* the pins of that loop: each child is fetched, then its parent unpinned
RECURSIVE DescendPins(_, _, _)
DescendPins(t, page_id, key) ==
  IF IsLeafPage(t.pages[page_id]) THEN t
  ELSE LET value == InternalFind(t.pages[page_id], key)
       IN  DescendPins(UnpinPage(FetchPage(t, value), page_id, FALSE), value, key)

\* TreeTraversal: the leaf reached (left pinned), and whether the key is
\* absent from it
TreeTraversal(t, key) ==
  LET leaf == FindLeaf(t, t.root_page_id_, key)
  IN  [bPage |-> leaf,
       ok    |-> ~LeafFind(t.pages[leaf], key),
       t     |-> DescendPins(FetchPage(t, t.root_page_id_), t.root_page_id_, key)]

\* the value the leaf stores with the key (the leaf holds the key)
LeafValue(p, key) == ValueAt(p, CHOOSE i \in 0 .. (GetSize(p) - 1) : KeyAt(p, i) = key)

\* GetValue on a tree that has a root: whether the leaf reached by the
\* descent holds the key, and the value it stores with it
GetValue(t, key) ==
  LET leaf == FindLeaf(t, t.root_page_id_, key)
      leaf_page == t.pages[leaf]
      t1 == DescendPins(FetchPage(t, t.root_page_id_), t.root_page_id_, key)
  IN  IF LeafFind(leaf_page, key)
      THEN [found |-> TRUE, result |-> <<LeafValue(leaf_page, key)>>,
            t |-> UnpinPage(t1, leaf, FALSE)]
      ELSE [found |-> FALSE, result |-> <<>>, t |-> UnpinPage(t1, leaf, FALSE)]

\* the page ids that descent passes to FetchPage, in order
RECURSIVE FetchedOnDescent(_, _, _)
FetchedOnDescent(t, page_id, key) ==
  IF IsLeafPage(t.pages[page_id]) THEN <<page_id>>
  ELSE <<page_id>> \o FetchedOnDescent(t, InternalFind(t.pages[page_id], key), key)

\* BPlusTree::GetValue: the ways the call can end, with the page ids it
\* fetched.  There is no test of the root id: on an empty tree line 37 calls
\* FetchPage(INVALID_PAGE_ID) and reads what comes back as a tree page.  The
\* buffer pool holds no such page: the read through the returned pointer
\* kills the process, or it finds something that passes for an empty leaf and
\* the call returns false after unpinning it.
GetValueImpl(t, key) ==
  IF t.root_page_id_ = INVALID_PAGE_ID
  THEN {[res |-> r, found |-> FALSE, result |-> <<>>, t |-> t,
         fetched |-> <<INVALID_PAGE_ID>>] : r \in {"crash", "ok"}}
  ELSE LET g == GetValue(t, key)
       IN {[res |-> "ok", found |-> g.found, result |-> g.result, t |-> g.t,
            fetched |-> FetchedOnDescent(t, t.root_page_id_, key)]}

\* BPlusTree::Remove: nothing on an empty tree; otherwise the descent to the
\* leaf, which stays pinned, and nothing else (the branch of line 349 is
\* empty, as is SimpleDelete)
TreeRemoveImpl(t, key) ==
  IF t.root_page_id_ = INVALID_PAGE_ID THEN t
  ELSE TreeTraversal(t, key).t

\* (mutant of ArrayUpperBound: the first position of the range)
ArrayRangeStart(array, first, key) == first

\* std::upper_bound over array_[first .. Len]: the first position whose key
\* is greater than key, Len + 1 when there is none
ArrayUpperBound(array, first, key) ==
  SetMin({i \in first .. Len(array) : KeyLess(key, array[i][1])} \cup {Len(array) + 1})

\* SimpleInsert: the pair put into a page that has room; an internal page
\* keeps its slot 0 out of the search
SimpleInsert(t, pair, bPage) ==
  LET p == t.pages[bPage]
      result ==
        IF IsLeafPage(p)
        THEN IF GetSize(p) = 0 THEN 1 ELSE ArrayUpperBound(p.array_, 1, pair[1])
        ELSE IF GetSize(p) = 1 THEN 2 ELSE ArrayUpperBound(p.array_, 2, pair[1])
  IN  UnpinPage([t EXCEPT !.pages[bPage].array_ = InsertAt(@, result, pair)], bPage, TRUE)

\* std::sort by key of a set of entries: every ascending arrangement (the
\* order of two entries of equal key is not specified)
RECURSIVE SortOutcomes(_)
SortOutcomes(S) ==
  IF S = {} THEN {<<>>}
  ELSE LET least == {e \in S : \A x \in S : ~KeyLess(x[1], e[1])}
       IN  UNION {{<<e>> \o rest : rest \in SortOutcomes(S \ {e})} : e \in least}

SeqRange(s) == {s[i] : i \in 1 .. Len(s)}

\* (mutant of Reparent: the children keep the parent they had)
ReparentNone(pages, moved, page_id) == pages

\* the loop of lines 177-182 and 251-256: every child the new internal page
\* refers to is fetched, gets the new page as its parent and is unpinned
Reparent(pages, moved, page_id) ==
  [i \in DOMAIN pages |->
     IF i \in moved THEN [pages[i] EXCEPT !.parent_page_id_ = page_id] ELSE pages[i]]

\* the page-splitting half of SimpleSplit and of MultipleSplit (the same
\* code in both): a new page takes the upper entries of the full page bPage
\* and of the incoming pair, sorted together over all slots, slot 0 of an
\* internal page included; the children a new internal page refers to are
\* re-parented to it (each fetched and unpinned again).  The new page
\* stays pinned.  One outcome per result of the sort.
SplitPage(t, pair, bPage) ==
  LET p == t.pages[bPage]
      leaf == IsLeafPage(p)
      page_id == Len(t.pages) + 1
      tmpnewpage == IF leaf THEN LeafInit(page_id, INVALID_PAGE_ID, t.leaf_max_size_)
                    ELSE InternalInit(page_id, INVALID_PAGE_ID, t.internal_max_size_)
      old_size == GetMinSize(tmpnewpage)
      Halves(tmpmap) ==
        LET upper == SubSeq(tmpmap, old_size + 1, Len(tmpmap))
            lower == SubSeq(tmpmap, 1, old_size)
            moved == IF leaf THEN {} ELSE {upper[i][2] : i \in 1 .. Len(upper)}
            newpage == [tmpnewpage EXCEPT
                          !.array_ = upper,
                          !.next_page_id_ = IF leaf THEN p.next_page_id_ ELSE @]
            oldpage == [p EXCEPT
                          !.array_ = lower,
                          !.next_page_id_ = IF leaf THEN page_id ELSE @]
            pages1 == Append([t.pages EXCEPT ![bPage] = oldpage], newpage)
        IN  [t |-> [t EXCEPT !.pages = Reparent(pages1, moved, page_id),
                    !.pin_count_ = Append(@, 1),
                    !.unpinned_ = IF leaf THEN @
                                  ELSE @ \o [i \in 1 .. Len(upper) |-> <<upper[i][2], TRUE>>]],
             page_id |-> page_id]
  IN  {Halves(tmpmap) : tmpmap \in SortOutcomes(SeqRange(p.array_) \cup {pair})}

\* a new root page that is made but not installed as the root
NewRootNotInstalled(t, bPage, slot0key) ==
  NewPage(t, [InternalInit(Len(t.pages) + 1, INVALID_PAGE_ID, t.internal_max_size_)
                EXCEPT !.array_ = << <<slot0key, bPage>> >>])

\* SimpleSplit without a parent: a new internal root whose slot 0 refers to
\* bPage; the key of slot 0 is never written, so it is whatever the page's
\* memory holds (slot0key)
NewRoot(t, bPage, slot0key) ==
  LET page_id1 == Len(t.pages) + 1
      tmppage == [InternalInit(page_id1, INVALID_PAGE_ID, t.internal_max_size_)
                    EXCEPT !.array_ = << <<slot0key, bPage>> >>]
  IN  [NewPage(t, tmppage) EXCEPT !.root_page_id_ = page_id1]

\* a split unpins the new page only (not the page it has split)
UnpinSplitNewOnly(t, page_id, bPage) == UnpinPage(t, page_id, TRUE)

\* a split unpins the new page and the page it has split
UnpinSplit(t, page_id, bPage) == UnpinPage(UnpinPage(t, page_id, TRUE), bPage, TRUE)

\* the end of SimpleSplit: both halves get the parent, and the pair of the
\* new page's slot-0 key and its id goes into the parent, which has room
Promote(t, bPage, page_id, parent_page) ==
  LET t1 == [t EXCEPT !.pages[bPage].parent_page_id_ = parent_page,
                      !.pages[page_id].parent_page_id_ = parent_page]
      new_pair == <<KeyAt(t1.pages[page_id], 0), page_id>>
  IN  SimpleInsert(UnpinSplit(t1, page_id, bPage), new_pair, parent_page)

\* SimpleSplit: split bPage under a parent with room, or under a new root
\* when parent_page is null
SimpleSplit(t, pair, bPage, parent_page) ==
  UNION {IF parent_page = INVALID_PAGE_ID
         THEN {Promote(NewRoot(s.t, bPage, g), bPage, s.page_id, Len(s.t.pages) + 1) :
                 g \in UninitKeys}
         ELSE {Promote(s.t, bPage, s.page_id, parent_page)} :
         s \in SplitPage(t, pair, bPage)}

\* MultipleSplit: split bPage under a full parent, then split the parent
RECURSIVE MultipleSplit(_, _, _, _)
MultipleSplit(t, pair, bPage, parent_page) ==
  UNION {LET t1 == [s.t EXCEPT !.pages[s.page_id].parent_page_id_ = parent_page]
             new_pair == <<KeyAt(t1.pages[s.page_id], 0), s.page_id>>
             new_parent_page == t1.pages[parent_page].parent_page_id_
             t2 == UnpinSplit(FetchPage(t1, new_parent_page), s.page_id, bPage)
         IN  IF IsRootPage(t1.pages[parent_page])
             THEN SimpleSplit(UnpinSplit(t1, s.page_id, bPage), new_pair, parent_page,
                              INVALID_PAGE_ID)
             ELSE IF t1.pages[new_parent_page].max_size_ > GetSize(t1.pages[new_parent_page])
                  THEN SimpleSplit(t2, new_pair, parent_page, new_parent_page)
                  ELSE MultipleSplit(t2, new_pair, parent_page, new_parent_page) :
         s \in SplitPage(t, pair, bPage)}

\* Insert on an empty tree first makes an empty leaf the root
StartNewTree(t) ==
  IF t.root_page_id_ = INVALID_PAGE_ID
  THEN LET page_id == Len(t.pages) + 1
       IN  UnpinPage([NewPage(t, LeafInit(page_id, INVALID_PAGE_ID, t.leaf_max_size_))
                        EXCEPT !.root_page_id_ = page_id],
                     page_id, TRUE)
  ELSE t

Counted(T) == {[tree |-> [t EXCEPT !.cur_size_ = @ + 1], res |-> TRUE] : t \in T}

\* BPlusTree::Insert: the trees it can leave, each with its result
TreeInsertImpl(t0, key, value) ==
  LET tt == TreeTraversal(StartNewTree(t0), key)
      t == tt.t
      bPage == tt.bPage
      p == t.pages[bPage]
      pair == <<key, value>>
      parent_page == p.parent_page_id_
      t1 == FetchPage(t, parent_page)
  IN  IF ~tt.ok THEN {[tree |-> UnpinPage(t, bPage, FALSE), res |-> FALSE]}
      ELSE IF p.max_size_ > GetSize(p) THEN Counted({SimpleInsert(t, pair, bPage)})
      ELSE IF IsRootPage(p) THEN Counted(SimpleSplit(t, pair, bPage, INVALID_PAGE_ID))
      ELSE IF t.pages[parent_page].max_size_ > GetSize(t.pages[parent_page])
           THEN Counted(SimpleSplit(t1, pair, bPage, parent_page))
           ELSE Counted(MultipleSplit(t1, pair, bPage, parent_page))

\* the descent loop of Begin(): down the slot-0 children to a leaf
RECURSIVE LeftmostLeaf(_, _)
LeftmostLeaf(t, page_id) ==
  IF IsLeafPage(t.pages[page_id]) THEN page_id
  ELSE LeftmostLeaf(t, ValueAt(t.pages[page_id], 0))

\* an iterator: the members page_id_ and index_in_page_ (page_ is the page
\* of page_id_), and whether the object is alive
IndexIterator(page_id, index_in_page) ==
  [live |-> TRUE, page_id_ |-> page_id, index_in_page_ |-> index_in_page]

NoIterator == [live |-> FALSE, page_id_ |-> INVALID_PAGE_ID, index_in_page_ |-> -1]

\* BPlusTree::Begin()
Begin(t) == IndexIterator(LeftmostLeaf(t, t.root_page_id_), 0)

\* BPlusTree::End()
End == IndexIterator(INVALID_PAGE_ID, -1)

\* IndexIterator::operator==
IterEqual(a, b) == a.page_id_ = b.page_id_ /\ a.index_in_page_ = b.index_in_page_

\* IndexIterator::operator*: the key of the current entry
Deref(t, i) == KeyAt(t.pages[i.page_id_], i.index_in_page_)

\* IndexIterator::operator++
Increment(t, i) ==
  IF i.page_id_ = INVALID_PAGE_ID THEN i
  ELSE IF i.index_in_page_ < GetSize(t.pages[i.page_id_]) - 1
       THEN [i EXCEPT !.index_in_page_ = @ + 1]
       ELSE LET next == t.pages[i.page_id_].next_page_id_
            IN  [i EXCEPT !.page_id_ = next,
                          !.index_in_page_ = IF next = INVALID_PAGE_ID THEN -1 ELSE 0]

\* the pins of that loop: each child is fetched, then its parent unpinned
RECURSIVE LeftmostPins(_, _)
LeftmostPins(t, page_id) ==
  IF IsLeafPage(t.pages[page_id]) THEN t
  ELSE LET child == ValueAt(t.pages[page_id], 0)
       IN  LeftmostPins(UnpinPage(FetchPage(t, child), page_id, FALSE), child)

\* the buffer pool after Begin(): the descent leaves the leaf pinned, and the
\* iterator's constructor fetches it again
BeginPins(t) ==
  FetchPage(LeftmostPins(FetchPage(t, t.root_page_id_), t.root_page_id_),
            Begin(t).page_id_)

\* BPlusTree::Begin(key): the leaf reached by the descent for key, at the
\* first slot whose key is not less than key (the slot past the entries
\* when there is none)
BeginAt(t, key) ==
  LET leaf == FindLeaf(t, t.root_page_id_, key)
      p == t.pages[leaf]
      index == Cardinality({i \in 0 .. (GetSize(p) - 1) :
                              \A j \in 0 .. i : KeyLess(KeyAt(p, j), key)})
  IN  IndexIterator(leaf, index)

\* the buffer pool after Begin(key): as after Begin()
BeginAtPins(t, key) ==
  FetchPage(DescendPins(FetchPage(t, t.root_page_id_), t.root_page_id_, key),
            BeginAt(t, key).page_id_)

\* the keys operator* can give: the key of the slot, or for a slot past the
\* entries whatever that part of the page holds
Reads(t, i) ==
  IF i.index_in_page_ < GetSize(t.pages[i.page_id_]) THEN {Deref(t, i)} ELSE UninitKeys

\* the buffer pool after operator++: on leaving a leaf the next leaf (if
\* any) is fetched and the leaf left is unpinned
IncrementPins(t, i) ==
  IF i.page_id_ = INVALID_PAGE_ID THEN t
  ELSE IF i.index_in_page_ < GetSize(t.pages[i.page_id_]) - 1 THEN t
       ELSE LET next == t.pages[i.page_id_].next_page_id_
            IN  UnpinPage(IF next = INVALID_PAGE_ID THEN t ELSE FetchPage(t, next),
                          i.page_id_, FALSE)

\* the buffer pool after the iterator's destructor
DestroyPins(t, i) == UnpinPage(t, i.page_id_, TRUE)

\* the pins held in the buffer pool
RECURSIVE SeqSum(_)
SeqSum(s) == IF s = <<>> THEN 0 ELSE s[1] + SeqSum(Tail(s))

\* Insert(key, value), called while no iterator is alive
TreeInsert(key, value) ==
  /\ tstatus = "ok"
  /\ ~iter.live
  /\ tree.cur_size_ < MaxTreeSize
  /\ \E o \in TreeInsertImpl(tree, key, value) :
       /\ tree' = Returned(o.tree)
       /\ inserted' = IF o.res THEN inserted \cup {key} ELSE inserted
  /\ UNCHANGED <<iter, seen, probe, tstatus>>
  /\ UNCHANGED <<rvars, hvars, cvars, svars>>

\* it = Begin() on a tree that has a root; the loop body reads *it
IterBegin ==
  /\ tstatus = "ok"
  /\ ~iter.live
  /\ tree.root_page_id_ # INVALID_PAGE_ID
  /\ SeqSum(tree.pin_count_) < MaxPins
  /\ iter' = Begin(tree)
  /\ seen' = <<Deref(tree, Begin(tree))>>
  /\ tree' = Returned(BeginPins(tree))
  /\ probe' = <<>>
  /\ UNCHANGED <<inserted, tstatus>>
  /\ UNCHANGED <<rvars, hvars, cvars, svars>>

\* it = Begin(key) on a tree that has a root; the loop body reads *it
IterBeginKey(key) ==
  /\ tstatus = "ok"
  /\ ~iter.live
  /\ tree.root_page_id_ # INVALID_PAGE_ID
  /\ SeqSum(tree.pin_count_) < MaxPins
  /\ iter' = BeginAt(tree, key)
  /\ \E k \in Reads(tree, BeginAt(tree, key)) : seen' = <<k>>
  /\ tree' = Returned(BeginAtPins(tree, key))
  /\ probe' = <<key>>
  /\ UNCHANGED <<inserted, tstatus>>
  /\ UNCHANGED <<rvars, hvars, cvars, svars>>

\* ++it; the loop body reads *it unless it == End()
IterNext ==
  /\ tstatus = "ok"
  /\ iter.live
  /\ \E next \in {Increment(tree, iter)} :
       /\ iter' = next
       /\ seen' = IF IterEqual(next, End) THEN seen ELSE Append(seen, Deref(tree, next))
  /\ tree' = Returned(IncrementPins(tree, iter))
  /\ UNCHANGED <<inserted, probe, tstatus>>
  /\ UNCHANGED <<rvars, hvars, cvars, svars>>

\* the iterator is destroyed
IterDestroy ==
  /\ tstatus = "ok"
  /\ iter.live
  /\ iter' = NoIterator
  /\ seen' = <<>>
  /\ tree' = Returned(DestroyPins(tree, iter))
  /\ probe' = <<>>
  /\ UNCHANGED <<inserted, tstatus>>
  /\ UNCHANGED <<rvars, hvars, cvars, svars>>

\* GetValue(key, &result)
TreeGetValue(key) ==
  /\ tstatus = "ok"
  /\ ~iter.live
  /\ \E o \in GetValueImpl(tree, key) :
       /\ tree' = Returned(o.t)
       /\ tstatus' = o.res
  /\ UNCHANGED <<iter, seen, inserted, probe>>
  /\ UNCHANGED <<rvars, hvars, cvars, svars>>

\* Remove(key)
TreeRemove(key) ==
  /\ tstatus = "ok"
  /\ ~iter.live
  /\ SeqSum(tree.pin_count_) < MaxPins
  /\ tree' = Returned(TreeRemoveImpl(tree, key))
  /\ inserted' = inserted \ {key}
  /\ UNCHANGED <<iter, seen, probe, tstatus>>
  /\ UNCHANGED <<rvars, hvars, cvars, svars>>

NextTree ==
  \/ \E k \in TKeys, v \in TValues : TreeInsert(k, v)
  \/ \E k \in TKeys : TreeGetValue(k)
  \/ \E k \in TKeys : TreeRemove(k)
  \/ IterBegin
  \/ \E k \in TKeys : IterBeginKey(k)
  \/ IterNext
  \/ IterDestroy

(***************************************************************************)
(* The B+-tree in the scenario with leaf_max_size 4 and internal_max_size  *)
(* 4: the calls of the scenario in their order, and from every state on    *)
(* that way every other call.                                              *)
(***************************************************************************)
\* the keys of the scenario's callers
ScenarioTKeys == 0 .. 11

\* Insert of 1, 2, ..., 10
TreeScript == [i \in 1 .. 10 |-> [op |-> "Insert", key |-> i]]

ScenarioTreeInsert(key, value) ==
  /\ spos >= 0
  /\ tstatus = "ok"
  /\ \E o \in TreeInsertImpl(tree, key, value) :
       /\ tree' = Returned(o.tree)
       /\ inserted' = IF o.res THEN inserted \cup {key} ELSE inserted
  /\ spos' = ScenarioStep(TreeScript, spos, [op |-> "Insert", key |-> key])
  /\ UNCHANGED <<iter, seen, probe, tstatus>>
  /\ UNCHANGED <<rvars, hvars, cvars>>

ScenarioTreeGetValue(key) ==
  /\ spos >= 0
  /\ tstatus = "ok"
  /\ \E o \in GetValueImpl(tree, key) :
       /\ tree' = Returned(o.t)
       /\ tstatus' = o.res
  /\ spos' = -1
  /\ UNCHANGED <<iter, seen, inserted, probe>>
  /\ UNCHANGED <<rvars, hvars, cvars>>

ScenarioTreeRemove(key) ==
  /\ spos >= 0
  /\ tstatus = "ok"
  /\ tree' = Returned(TreeRemoveImpl(tree, key))
  /\ inserted' = inserted \ {key}
  /\ spos' = -1
  /\ UNCHANGED <<iter, seen, probe, tstatus>>
  /\ UNCHANGED <<rvars, hvars, cvars>>

NextTreeScenario ==
  \/ \E k \in ScenarioTKeys, v \in TValues : ScenarioTreeInsert(k, v)
  \/ \E k \in ScenarioTKeys : ScenarioTreeGetValue(k)
  \/ \E k \in ScenarioTKeys : ScenarioTreeRemove(k)

(***************************************************************************)
(* Specifications: one per component, the other components left as         *)
(* constructed.                                                            *)
(***************************************************************************)
\* a replacer constructed with (NumFrames, k), k one of KValues
InitReplacer ==
  /\ \E k \in KValues : rep = NewReplacer(NumFrames, k)
  /\ rstatus = "ok"
  /\ racc = [f \in FrameIds |-> <<>>]
  /\ ht = NewHashTable(1)
  /\ hstatus = "ok"
  /\ hlast = [k \in HKeys |-> "never"]
  /\ tree = NewTree(2, 3)
  /\ iter = NoIterator
  /\ seen = <<>>
  /\ inserted = {}
  /\ probe = <<>>
  /\ tstatus = "ok"
  /\ hlatch = <<>>
  /\ hthread = [th \in Threads |-> IdleThread]
  /\ hseq = NewHashTable(1)
  /\ spos = 0

\* a hash table constructed with a bucket capacity of 1 .. MaxBucketSize
InitHash ==
  /\ \E b \in 1 .. MaxBucketSize : ht = NewHashTable(b)
  /\ hstatus = "ok"
  /\ hlast = [k \in HKeys |-> "never"]
  /\ rep = NewReplacer(NumFrames, 2)
  /\ rstatus = "ok"
  /\ racc = [f \in FrameIds |-> <<>>]
  /\ tree = NewTree(2, 3)
  /\ iter = NoIterator
  /\ seen = <<>>
  /\ inserted = {}
  /\ probe = <<>>
  /\ tstatus = "ok"
  /\ hlatch = <<>>
  /\ hthread = [th \in Threads |-> IdleThread]
  /\ hseq = NewHashTable(1)
  /\ spos = 0

\* the replacer of the scenario: N = 7, K = 2
InitReplacerScenario ==
  /\ rep = NewReplacerOn(ScenarioFrames, 7, 2)
  /\ rstatus = "ok"
  /\ racc = [f \in FrameIds |-> <<>>]
  /\ spos = 0
  /\ ht = NewHashTable(1)
  /\ hstatus = "ok"
  /\ hlast = [k \in HKeys |-> "never"]
  /\ tree = NewTree(2, 3)
  /\ iter = NoIterator
  /\ seen = <<>>
  /\ inserted = {}
  /\ probe = <<>>
  /\ tstatus = "ok"
  /\ hlatch = <<>>
  /\ hthread = [th \in Threads |-> IdleThread]
  /\ hseq = NewHashTable(1)

\* the hash table of the scenario: buckets of 2 pairs
InitHashScenario ==
  /\ ht = NewHashTable(2)
  /\ hstatus = "ok"
  /\ hlast = [k \in HKeys |-> "never"]
  /\ spos = 0
  /\ rep = NewReplacer(NumFrames, 2)
  /\ rstatus = "ok"
  /\ racc = [f \in FrameIds |-> <<>>]
  /\ tree = NewTree(2, 3)
  /\ iter = NoIterator
  /\ seen = <<>>
  /\ inserted = {}
  /\ probe = <<>>
  /\ tstatus = "ok"
  /\ hlatch = <<>>
  /\ hthread = [th \in Threads |-> IdleThread]
  /\ hseq = NewHashTable(1)

\* a hash table constructed with a bucket capacity of 1 .. MaxBucketSize,
\* no thread in a call
InitHashThreads ==
  /\ \E b \in 1 .. MaxBucketSize : ht = NewHashTable(b) /\ hseq = NewHashTable(b)
  /\ hstatus = "ok"
  /\ hlast = [k \in HKeys |-> "never"]
  /\ hlatch = <<>>
  /\ hthread = [th \in Threads |-> IdleThread]
  /\ spos = 0
  /\ rep = NewReplacer(NumFrames, 2)
  /\ rstatus = "ok"
  /\ racc = [f \in FrameIds |-> <<>>]
  /\ tree = NewTree(2, 3)
  /\ iter = NoIterator
  /\ seen = <<>>
  /\ inserted = {}
  /\ probe = <<>>
  /\ tstatus = "ok"

\* the empty tree of the scenario: leaf_max_size 4, internal_max_size 4
InitTreeScenario ==
  /\ tree = NewTree(4, 4)
  /\ iter = NoIterator
  /\ seen = <<>>
  /\ inserted = {}
  /\ probe = <<>>
  /\ tstatus = "ok"
  /\ spos = 0
  /\ rep = NewReplacer(NumFrames, 2)
  /\ rstatus = "ok"
  /\ racc = [f \in FrameIds |-> <<>>]
  /\ ht = NewHashTable(1)
  /\ hstatus = "ok"
  /\ hlast = [k \in HKeys |-> "never"]
  /\ hlatch = <<>>
  /\ hthread = [th \in Threads |-> IdleThread]
  /\ hseq = NewHashTable(1)

\* an empty tree constructed with fanouts of LeafMaxSizes, InternalMaxSizes
InitTree ==
  /\ \E l \in LeafMaxSizes, i \in InternalMaxSizes : tree = NewTree(l, i)
  /\ iter = NoIterator
  /\ seen = <<>>
  /\ inserted = {}
  /\ probe = <<>>
  /\ tstatus = "ok"
  /\ hlatch = <<>>
  /\ hthread = [th \in Threads |-> IdleThread]
  /\ hseq = NewHashTable(1)
  /\ spos = 0
  /\ rep = NewReplacer(NumFrames, 2)
  /\ rstatus = "ok"
  /\ racc = [f \in FrameIds |-> <<>>]
  /\ ht = NewHashTable(1)
  /\ hstatus = "ok"
  /\ hlast = [k \in HKeys |-> "never"]

SpecReplacer == InitReplacer /\ [][NextReplacer]_vars

SpecHash == InitHash /\ [][NextHash]_vars

SpecTree == InitTree /\ [][NextTree]_vars

SpecHashThreads == InitHashThreads /\ [][NextHashThreads]_vars

SpecReplacerScenario == InitReplacerScenario /\ [][NextReplacerScenario]_vars

SpecHashScenario == InitHashScenario /\ [][NextHashScenario]_vars

SpecTreeScenario == InitTreeScenario /\ [][NextTreeScenario]_vars

(***************************************************************************)
(* Statements about the replacer.                                          *)
(***************************************************************************)
\* a frame is tracked when its access count is at least 1
Tracked(r, f) == r.access_times_[f] >= 1

\* the tracked frames whose evictable flag is true
EvictableFrames(r) == {f \in FrameIds : Tracked(r, f) /\ r.evictable_[f]}

\* the evictable frames with fewer than k_ accesses / with at least k_
YoungEvictable(r) == {f \in EvictableFrames(r) : r.access_times_[f] < r.k_}

MatureEvictable(r) == {f \in EvictableFrames(r) : r.access_times_[f] >= r.k_}

\* the k-th most recent of the accesses acc (Len(acc) >= k)
KthMostRecent(acc, k) == acc[Len(acc) - k + 1]

\* C1: whenever a call has returned, Size() is the number of tracked frames
\* whose evictable flag is true
C1_SizeIdentity ==
  rstatus = "ok" => Size(rep) = Cardinality(EvictableFrames(rep))

\* C2: with an evictable frame below k_ accesses and an evictable frame at or
\* above k_ accesses, Evict returns a frame whose access count is below k_
C2_YoungBeforeMature ==
  (rstatus = "ok" /\ YoungEvictable(rep) # {} /\ MatureEvictable(rep) # {}) =>
    LET e == EvictBody(rep)
    IN e.ok /\ e.frame \in YoungEvictable(rep)

\* C3: with no evictable frame below k_ accesses, Evict returns the evictable
\* frame whose k_-th most recent access is the oldest
C3_BackwardKDistance ==
  (rstatus = "ok" /\ YoungEvictable(rep) = {} /\ MatureEvictable(rep) # {}) =>
    LET e == EvictBody(rep)
    IN /\ e.ok
       /\ e.frame \in MatureEvictable(rep)
       /\ \A g \in MatureEvictable(rep) :
            KthMostRecent(racc[e.frame], rep.k_) <= KthMostRecent(racc[g], rep.k_)

\* C4: among the evictable frames below k_ accesses, Evict returns the one
\* whose first access since it became tracked is the earliest
C4_YoungOldestFirst ==
  (rstatus = "ok" /\ YoungEvictable(rep) # {}) =>
    LET e == EvictBody(rep)
    IN /\ e.ok
       /\ e.frame \in YoungEvictable(rep)
       /\ \A g \in YoungEvictable(rep) : Head(racc[e.frame]) <= Head(racc[g])

\* C5: Evict returns true exactly when a tracked frame is evictable; the frame
\* it reports was tracked and evictable, is untracked afterwards and Size()
\* has dropped by 1; when it returns false the replacer is unchanged
C5_EvictContract ==
  rstatus = "ok" =>
    LET e == EvictBody(rep)
    IN /\ e.ok <=> (EvictableFrames(rep) # {})
       /\ e.ok =>
            /\ e.frame \in EvictableFrames(rep)
            /\ e.rep.access_times_[e.frame] = 0
            /\ e.rep.history_list_[e.frame] = <<>>
            /\ NodeOf(e.rep.lru_less_k_, e.frame) = 0
            /\ KNodeOf(e.rep.lru_k_, e.frame) = 0
            /\ Size(e.rep) = Size(rep) - 1
       /\ ~e.ok => e.rep = rep

(***************************************************************************)
(* Statements about the hash table.                                        *)
(***************************************************************************)
\* the places (bucket, position) at which key is stored
PlacesOf(h, key) ==
  {p \in (DOMAIN h.bucket) \X (1 .. h.bucket_size_) :
     p[2] <= Len(h.bucket[p[1]].list_) /\ h.bucket[p[1]].list_[p[2]][1] = key}

\* the slots of the directory that refer to bucket id
SlotsOf(h, id) == {i \in 0 .. (Len(h.dir_) - 1) : h.dir_[i + 1] = id}

\* the number of pairs the table stores
StoredCount(h) == Cardinality(UNION {PlacesOf(h, k) : k \in HKeys})

\* C6: after any Insert and Remove calls, Find gives the value of the latest
\* Insert of a key and not-found for a key never inserted or removed since;
\* every stored key is stored once
C6_Membership ==
  hstatus = "ok" =>
    \A k \in HKeys :
      LET f == Find(ht, k)
      IN /\ hlast[k] \in HValues =>
              f.found /\ f.value = hlast[k] /\ Cardinality(PlacesOf(ht, k)) = 1
         /\ hlast[k] \notin HValues => ~f.found /\ PlacesOf(ht, k) = {}

\* C6 happens: the directory has doubled twice, buckets have split, a key was
\* overwritten or inserted with "b", a key was removed
C6_Witness ==
  /\ hstatus = "ok"
  /\ GetGlobalDepth(ht) >= 2
  /\ GetNumBuckets(ht) >= 3
  /\ \E k \in HKeys : hlast[k] = "removed"
  /\ \E k \in HKeys : hlast[k] = "b"
  /\ StoredCount(ht) >= 3

\* C7: after every call the directory has 2^G slots, every local depth L is at
\* most G, each bucket is referred to by exactly the 2^(G-L) slots that agree
\* on their low L bits, and GetNumBuckets() counts the buckets referred to
C7_DirectoryShape ==
  hstatus = "ok" =>
    /\ Len(ht.dir_) = 2 ^ GetGlobalDepth(ht)
    /\ \A i \in 0 .. (Len(ht.dir_) - 1) :
         LET L == GetLocalDepth(ht, i)
         IN /\ L <= GetGlobalDepth(ht)
            /\ Cardinality(SlotsOf(ht, ht.dir_[i + 1])) = 2 ^ (GetGlobalDepth(ht) - L)
            /\ \A j \in SlotsOf(ht, ht.dir_[i + 1]) : j % (2 ^ L) = i % (2 ^ L)
    /\ GetNumBuckets(ht) = Cardinality({ht.dir_[i] : i \in 1 .. Len(ht.dir_)})

\* C7 happens: a split has left a bucket whose local depth is below the
\* global depth beside buckets at the global depth
C7_Witness ==
  /\ hstatus = "ok"
  /\ GetGlobalDepth(ht) >= 2
  /\ \E i \in 0 .. (Len(ht.dir_) - 1) : GetLocalDepth(ht, i) < GetGlobalDepth(ht)
  /\ \E i \in 0 .. (Len(ht.dir_) - 1) : GetLocalDepth(ht, i) = GetGlobalDepth(ht)
  /\ GetNumBuckets(ht) >= 3

\* C8: Insert of a stored key overwrites its value and leaves the global
\* depth, the local depths, the directory and GetNumBuckets() as they were;
\* a split happens only when the bucket is full and the key is new
C8_OverwriteNeverSplits ==
  hstatus = "ok" =>
    \A k \in HKeys, v \in HValues :
      LET o      == HashInsertImpl(ht, k, v)
          target == ht.bucket[ht.dir_[IndexOf(ht, k) + 1]]
          same   == /\ GetGlobalDepth(o.ht) = GetGlobalDepth(ht)
                    /\ GetNumBuckets(o.ht) = GetNumBuckets(ht)
                    /\ o.ht.dir_ = ht.dir_
                    /\ \A i \in 0 .. (Len(ht.dir_) - 1) :
                         GetLocalDepth(o.ht, i) = GetLocalDepth(ht, i)
      IN /\ Find(ht, k).found =>
              /\ o.res = "ok"
              /\ same
              /\ Find(o.ht, k) = [found |-> TRUE, value |-> v]
         /\ ~same => IsFull(target) /\ ~Find(ht, k).found

\* C9: every Insert call terminates (after finitely many splits)
C9_InsertTerminates == hstatus # "diverge"

(***************************************************************************)
(* Statements about the B+-tree.                                           *)
(***************************************************************************)
\* the keys of a set in ascending order
RECURSIVE Ascending(_)
Ascending(S) ==
  IF S = {} THEN <<>> ELSE <<SetMin(S)>> \o Ascending(S \ {SetMin(S)})

\* C10: an iteration from Begin() visits the inserted keys in ascending
\* order, each once: the keys read so far are the first of the inserted
\* keys in ascending order, and once the iterator equals End() (page
\* INVALID, slot -1) they are all of them.
C10_IterationVisitsAll ==
  (iter.live /\ probe = <<>>) =>
    /\ Len(seen) <= Cardinality(inserted)
    /\ seen = SubSeq(Ascending(inserted), 1, Len(seen))
    /\ IterEqual(iter, End) => Len(seen) = Cardinality(inserted)

\* C11: Insert(k, v) returns true exactly when k is not stored yet, and an
\* Insert that returns false changes nothing; on a tree that has a root,
\* GetValue(k) finds every inserted key, with the value it was inserted
\* with, and no other key.
C11_InsertAndLookup ==
  \A k \in TKeys :
    /\ tree.root_page_id_ # INVALID_PAGE_ID =>
         /\ GetValue(tree, k).found <=> k \in inserted
         /\ GetValue(tree, k).found => GetValue(tree, k).result[1] \in TValues
    /\ \A v \in TValues : \A o \in TreeInsertImpl(tree, k, v) :
         /\ o.res <=> k \notin inserted
         /\ ~o.res => Returned(o.tree) = tree

\* the pin counts pins, with no pin on the pages made since
PinsKept(pins, t) == [i \in DOMAIN t.pin_count_ |-> IF i \in DOMAIN pins THEN pins[i] ELSE 0]

\* C12: every Insert, whatever its path, and every GetValue on a tree that
\* has a root, returns with each page's pin count as it was before the call
\* (0 for a page the call has made).
C12_PinBalance ==
  \A k \in TKeys :
    /\ tree.root_page_id_ # INVALID_PAGE_ID =>
         GetValue(tree, k).t.pin_count_ = tree.pin_count_
    /\ \A v \in TValues : \A o \in TreeInsertImpl(tree, k, v) :
         o.tree.pin_count_ = PinsKept(tree.pin_count_, o.tree)

\* a tree with a pinned page in which some Insert splits a full leaf under a
\* full parent
C12_Witness ==
  /\ tree.root_page_id_ # INVALID_PAGE_ID
  /\ tree.cur_size_ < MaxTreeSize
  /\ SeqSum(tree.pin_count_) > 0
  /\ \E k \in TKeys :
       LET tt == TreeTraversal(tree, k)
           p == tree.pages[tt.bPage]
       IN  /\ tt.ok
           /\ GetSize(p) = p.max_size_
           /\ ~IsRootPage(p)
           /\ GetSize(tree.pages[p.parent_page_id_]) = tree.pages[p.parent_page_id_].max_size_

\* the iterator i and the buffer pool t after n increments
RECURSIVE StepsFrom(_, _, _)
StepsFrom(t, i, n) ==
  IF n = 0 THEN [t |-> t, i |-> i]
  ELSE StepsFrom(IncrementPins(t, i), Increment(t, i), n - 1)

\* the pin counts are pins and one pin more on the iterator's leaf
OnePinHeld(pins, t, i) ==
  t.pin_count_ = [j \in DOMAIN pins |-> pins[j] + IF j = i.page_id_ THEN 1 ELSE 0]

\* the iterators Begin() and Begin(key) give, each with the buffer pool after
BeginResults(t) ==
  {[t |-> BeginPins(t), i |-> Begin(t)]} \cup
  {[t |-> BeginAtPins(t, q), i |-> BeginAt(t, q)] : q \in TKeys}

\* C13: an iterator made by Begin() or Begin(key) and incremented any number
\* of times holds exactly one pin, on its current leaf (none once it equals
\* End()), and destroying it leaves every pin count as before the Begin.
C13_IteratorPins ==
  (~iter.live /\ tree.root_page_id_ # INVALID_PAGE_ID) =>
    \A b \in BeginResults(tree) : \A n \in 0 .. (tree.cur_size_ + 1) :
      LET w == StepsFrom(b.t, b.i, n)
      IN  /\ OnePinHeld(tree.pin_count_, w.t, w.i)
          /\ DestroyPins(w.t, w.i).pin_count_ = tree.pin_count_

\* every slot the iterator takes in n increments from i is a slot of its leaf
RECURSIVE ValidSlots(_, _, _)
ValidSlots(t, i, n) ==
  \/ i.page_id_ = INVALID_PAGE_ID
  \/ /\ i.index_in_page_ < GetSize(t.pages[i.page_id_])
     /\ n > 0 => ValidSlots(t, Increment(t, i), n - 1)

\* the keys read in an iteration from i to End() of at most n increments
RECURSIVE KeysFrom(_, _, _)
KeysFrom(t, i, n) ==
  IF i.page_id_ = INVALID_PAGE_ID \/ n = 0 THEN <<>>
  ELSE <<Deref(t, i)>> \o KeysFrom(t, Increment(t, i), n - 1)

\* C14: on a tree that has a root, for every probe key q the iteration from
\* Begin(q) takes only valid slots and yields the stored keys >= q in
\* ascending order, then equals End().
C14_RangeFromKey ==
  tree.root_page_id_ # INVALID_PAGE_ID =>
    \A q \in TKeys :
      /\ ValidSlots(tree, BeginAt(tree, q), tree.cur_size_ + 1)
      /\ KeysFrom(tree, BeginAt(tree, q), tree.cur_size_ + 1)
           = Ascending({k \in inserted : ~KeyLess(k, q)})

\* the frame ids the replacer was constructed for
InRange == 0 .. (NumFrames - 1)

\* C15: a RecordAccess of an untracked frame, with the replacer at capacity
\* and a tracked frame evictable, returns: it has evicted the frame Evict
\* chooses and no other, and the new frame is at the front of lru_less_k_ and
\* evictable; the call never blocks on latch_
C15_AccessAtCapacity ==
  rstatus = "ok" =>
    \A f \in InRange :
      (/\ ~Tracked(rep, f)
       /\ rep.curr_size_ = rep.max_size_
       /\ EvictableFrames(rep) # {}) =>
        \A o \in RecordAccessImpl(rep, f) :
          /\ o.res = "ok"
          /\ EvictBody(rep).ok
          /\ ~Tracked(o.rep, EvictBody(rep).frame)
          /\ \A g \in FrameIds \ {f, EvictBody(rep).frame} :
               o.rep.access_times_[g] = rep.access_times_[g]
          /\ o.rep.lru_less_k_ # <<>>
          /\ Head(o.rep.lru_less_k_) = f
          /\ Tracked(o.rep, f)
          /\ o.rep.evictable_[f]

\* C16: RecordAccess, SetEvictable and Remove with a frame id at or above
\* num_frames throw and leave the replacer as it was; no such frame is ever
\* tracked
C16_OutOfRange ==
  rstatus = "ok" =>
    \A f \in FrameIds \ InRange :
      /\ ~Tracked(rep, f)
      /\ \A o \in RecordAccessImpl(rep, f) : o = Outcome(rep, "throw")
      /\ \A b \in BOOLEAN : SetEvictableImpl(rep, f, b) = Outcome(rep, "throw")
      /\ \A o \in RemoveImpl(rep, f) : o = Outcome(rep, "throw")

\* the replacer's state of the frames other than f
Others(r, f) ==
  [ access_times_ |-> [g \in FrameIds \ {f} |-> r.access_times_[g]],
    history_list_ |-> [g \in FrameIds \ {f} |-> r.history_list_[g]],
    evictable_    |-> [g \in FrameIds \ {f} |-> r.evictable_[g]],
    lru_less_k_   |-> SelectSeq(r.lru_less_k_, LAMBDA g : g # f),
    lru_k_        |-> SelectSeq(r.lru_k_, LAMBDA p : p[1] # f) ]

\* C17: Remove of a tracked frame that is not evictable throws and changes
\* nothing; of an untracked frame it returns and changes nothing; of a tracked
\* evictable frame it returns with the frame untracked (count 0, history
\* empty, in neither list), Size() one less and the other frames as they were
C17_RemoveContract ==
  rstatus = "ok" =>
    \A f \in InRange : \A o \in RemoveImpl(rep, f) :
      /\ (Tracked(rep, f) /\ ~rep.evictable_[f]) => o = Outcome(rep, "throw")
      /\ ~Tracked(rep, f) => o = Outcome(rep, "ok")
      /\ (Tracked(rep, f) /\ rep.evictable_[f]) =>
           /\ o.res = "ok"
           /\ o.rep.access_times_[f] = 0
           /\ o.rep.history_list_[f] = <<>>
           /\ NodeOf(o.rep.lru_less_k_, f) = 0
           /\ KNodeOf(o.rep.lru_k_, f) = 0
           /\ Size(o.rep) = Size(rep) - 1
           /\ Others(o.rep, f) = Others(rep, f)

\* C18: SetEvictable never changes max_size_, which stays the num_frames of
\* the construction; it changes only evictable_[f] and curr_size_, and
\* nothing on an untracked frame or with the flag the frame already has
C18_CapacityFixed ==
  rstatus = "ok" =>
    /\ rep.max_size_ = NumFrames
    /\ \A f \in InRange : \A b \in BOOLEAN :
         LET o == SetEvictableImpl(rep, f, b)
         IN /\ o.rep.max_size_ = rep.max_size_
            /\ [o.rep EXCEPT !.evictable_[f] = rep.evictable_[f],
                             !.curr_size_ = rep.curr_size_] = rep
            /\ (~Tracked(rep, f) \/ rep.evictable_[f] = b) => o.rep = rep

\* C19: GetValue on a tree without a root returns false with no result,
\* fetches no page and leaves the tree and every pin count as they were
C19_EmptyLookup ==
  tree.root_page_id_ = INVALID_PAGE_ID =>
    \A k \in TKeys : \A o \in GetValueImpl(tree, k) :
      /\ o.res = "ok"
      /\ ~o.found
      /\ o.result = <<>>
      /\ o.fetched = <<>>
      /\ Returned(o.t) = tree

\* C20: Remove of a key that GetValue finds leaves a tree in which GetValue
\* does not find it, with one item fewer, every other key found as before and
\* every pin count as before; Remove of a key that is not found changes
\* nothing
C20_RemoveDeletes ==
  (tstatus = "ok" /\ tree.root_page_id_ # INVALID_PAGE_ID) =>
    \A k \in TKeys :
      LET t2 == TreeRemoveImpl(tree, k)
      IN  IF GetValue(tree, k).found
          THEN /\ ~GetValue(t2, k).found
               /\ t2.cur_size_ = tree.cur_size_ - 1
               /\ \A j \in TKeys \ {k} :
                    GetValue(tree, j).found => GetValue(t2, j).found
               /\ t2.pin_count_ = tree.pin_count_
          ELSE Returned(t2) = tree

\* the pages an internal page refers to
Children(p) == {p.array_[i][2] : i \in 1 .. Len(p.array_)}

\* the depths, counted from page page_id, of the leaves under it
RECURSIVE LeafDepths(_, _)
LeafDepths(t, page_id) ==
  IF IsLeafPage(t.pages[page_id]) THEN {0}
  ELSE {d + 1 : d \in UNION {LeafDepths(t, c) : c \in Children(t.pages[page_id])}}

\* the number of levels of the tree, 0 for a tree without a root
Height(t) ==
  IF t.root_page_id_ = INVALID_PAGE_ID THEN 0
  ELSE SetMax(LeafDepths(t, t.root_page_id_)) + 1

\* every page on the way from the root to the leaf for key is full: an
\* Insert of a new key there splits every level, the root included
PathFull(t, key) ==
  \A i \in SeqRange(FetchedOnDescent(t, t.root_page_id_, key)) :
    GetSize(t.pages[i]) = t.pages[i].max_size_

\* C21: all leaves are at the same depth; an Insert leaves the height one
\* greater when it splits the root and unchanged otherwise
C21_HeightUniform ==
  tree.root_page_id_ # INVALID_PAGE_ID =>
    /\ Cardinality(LeafDepths(tree, tree.root_page_id_)) = 1
    /\ \A k \in TKeys : \A v \in TValues : \A o \in TreeInsertImpl(tree, k, v) :
         Height(o.tree) =
           Height(tree) + (IF o.res /\ PathFull(tree, k) THEN 1 ELSE 0)

\* an internal root over leaves, with the root and the leaf for some new key
\* both full: the Insert of that key splits the leaf and then the root
C21_Witness ==
  /\ tree.root_page_id_ # INVALID_PAGE_ID
  /\ tree.cur_size_ < MaxTreeSize
  /\ Height(tree) = 2
  /\ \E k \in TKeys : TreeTraversal(tree, k).ok /\ PathFull(tree, k)

(***************************************************************************)
(* Statements about the hash table under several threads.                  *)
(***************************************************************************)
\* the threads that are inside a method
Inside == {th \in Threads : hthread[th].pc # "idle"}

\* C22: at most one thread is inside a method, and it holds the latch; a
\* thread that has just entered finds the table as the completed calls leave
\* it (never a table in the middle of a split or doubling); a call that is
\* about to return has the result, and leaves the table, of that call run
\* alone after the calls completed before it
C22_Serialized ==
  /\ Cardinality(Inside) <= 1
  /\ \A th \in Inside : hlatch = <<th>>
  /\ Inside = {} => hlatch = <<>> /\ ht = hseq
  /\ \A th \in Threads :
       /\ hthread[th].pc = "locked" => ht = hseq
       /\ hthread[th].pc = "done" =>
            /\ hthread[th].ret = SeqApply(hseq, hthread[th]).ret
            /\ ht = SeqApply(hseq, hthread[th]).ht

\* a thread is between the doubling of the directory and the split, in an
\* Insert that has split before, while the other thread waits outside
C22_Witness ==
  \E th \in Threads :
    /\ hthread[th].pc = "split"
    /\ GetGlobalDepth(ht) >= 2
    /\ GetGlobalDepth(ht) > GetGlobalDepth(hseq)
    /\ GetNumBuckets(ht) > GetNumBuckets(hseq)
    /\ \A o \in Threads \ {th} : hthread[o].pc = "idle"

(***************************************************************************)
(* Statements about the scenarios.                                         *)
(***************************************************************************)
\* the frames that two Evict calls in a row yield on replacer r
TwoEvicts(r) == <<EvictBody(r).frame, EvictBody(EvictBody(r).rep).frame>>

\* C23 as stated: after the calls of the scenario the first Evict yields
\* frame 5 and the next yields frame 1
C23_ScenarioAsStated ==
  (spos = Len(ReplacerScript) /\ rstatus = "ok") => TwoEvicts(rep) = <<5, 1>>

\* C23: after the calls of the scenario (frames 1..5 have two accesses each
\* and frame 6, with one, is not evictable) the first Evict yields frame 1
\* and the next yields frame 2
C23_Scenario ==
  (spos = Len(ReplacerScript) /\ rstatus = "ok") => TwoEvicts(rep) = <<1, 2>>

\* the scenario has been run to its end
C23_Witness ==
  /\ spos = Len(ReplacerScript)
  /\ rstatus = "ok"
  /\ rep.access_times_[5] = 2
  /\ ~rep.evictable_[6]

\* C24 as stated: after the three Inserts of the scenario the global depth is
\* 2 and GetNumBuckets() is 2
C24_ScenarioAsStated ==
  (spos = Len(HashScript) /\ hstatus = "ok") =>
    GetGlobalDepth(ht) = 2 /\ GetNumBuckets(ht) = 2

\* C24: after the three Inserts of the scenario (the hashes 4, 12 and 20
\* agree in their three low bits) the global depth is 4 and GetNumBuckets()
\* is 5; all three keys are found with their values
C24_Scenario ==
  (spos = Len(HashScript) /\ hstatus = "ok") =>
    /\ GetGlobalDepth(ht) = 4
    /\ GetNumBuckets(ht) = 5
    /\ Find(ht, 4) = [found |-> TRUE, value |-> "a"]
    /\ Find(ht, 12) = [found |-> TRUE, value |-> "b"]
    /\ Find(ht, 20) = [found |-> TRUE, value |-> "c"]

\* the scenario has been run to its end
C24_Witness ==
  /\ spos = Len(HashScript)
  /\ hstatus = "ok"
  /\ Find(ht, 20).found

\* the keys a page holds
PageKeys(p) == {p.array_[i][1] : i \in 1 .. Len(p.array_)}

\* the last leaf of the chain of leaves that starts at leaf page_id
RECURSIVE ChainEnd(_, _)
ChainEnd(t, page_id) ==
  IF t.pages[page_id].next_page_id_ = INVALID_PAGE_ID THEN page_id
  ELSE ChainEnd(t, t.pages[page_id].next_page_id_)

\* the leftmost leaf and the last leaf of the chain
FirstLeaf(t) == t.pages[LeftmostLeaf(t, t.root_page_id_)]

LastLeaf(t) == t.pages[ChainEnd(t, LeftmostLeaf(t, t.root_page_id_))]

\* C25 as stated: after the Inserts of 1..10 the tree has height 2, its first
\* leaf holds {1, 2}, its last leaf holds {9, 10} and the iteration from
\* Begin() to End() yields 1..10
C25_ScenarioAsStated ==
  (spos = Len(TreeScript) /\ tstatus = "ok") =>
    /\ Height(tree) = 2
    /\ PageKeys(FirstLeaf(tree)) = {1, 2}
    /\ PageKeys(LastLeaf(tree)) = {9, 10}
    /\ KeysFrom(tree, Begin(tree), 11) = [i \in 1 .. 10 |-> i]

\* C25: after the Inserts of 1..10 the tree has height 2, its first leaf
\* holds {1, 2}, its last leaf holds {7, 8, 9, 10} (a leaf is split by the
\* Insert that finds it holding 4 pairs, and keeps its first 2) and the
\* iteration from Begin() to End() yields 1..10
C25_Scenario ==
  (spos = Len(TreeScript) /\ tstatus = "ok") =>
    /\ Height(tree) = 2
    /\ PageKeys(FirstLeaf(tree)) = {1, 2}
    /\ PageKeys(LastLeaf(tree)) = {7, 8, 9, 10}
    /\ KeysFrom(tree, Begin(tree), 11) = [i \in 1 .. 10 |-> i]

\* the scenario has been run to its end
C25_Witness ==
  /\ spos = Len(TreeScript)
  /\ tstatus = "ok"
  /\ tree.cur_size_ = 10
  /\ inserted = 1 .. 10


(***************************************************************************)
(* Statements about the replacer's two sets and the access histories.      *)
(***************************************************************************)
\* the frames that have a node in lru_less_k_ / in lru_k_
YoungSet(r) == {r.lru_less_k_[i] : i \in 1 .. Len(r.lru_less_k_)}

MatureSet(r) == {r.lru_k_[i][1] : i \in 1 .. Len(r.lru_k_)}

\* the calls on the frames 0 .. num_frames - 1
NextReplacerLRU1 ==
  \/ \E f \in InRange : RecordAccess(f)
  \/ \E f \in InRange, b \in BOOLEAN : SetEvictable(f, b)
  \/ \E f \in InRange : Remove(f)
  \/ Evict

\* a replacer constructed with (NumFrames, 1)
InitReplacerLRU1 ==
  /\ rep = NewReplacer(NumFrames, 1)
  /\ rstatus = "ok"
  /\ racc = [f \in FrameIds |-> <<>>]
  /\ ht = NewHashTable(1)
  /\ hstatus = "ok"
  /\ hlast = [k \in HKeys |-> "never"]
  /\ tree = NewTree(2, 3)
  /\ iter = NoIterator
  /\ seen = <<>>
  /\ inserted = {}
  /\ probe = <<>>
  /\ tstatus = "ok"
  /\ hlatch = <<>>
  /\ hthread = [th \in Threads |-> IdleThread]
  /\ hseq = NewHashTable(1)
  /\ spos = 0

SpecReplacerLRU1 == InitReplacerLRU1 /\ [][NextReplacerLRU1]_vars

\* C26: whenever a call has returned, a frame has a node in lru_less_k_
\* exactly when its access count is in 1 .. k_ - 1 and a node in lru_k_
\* exactly when its count is at least k_, no frame has two nodes, and
\* less_k_map_ and k_map_ hold an entry exactly for the frames of their list
C26_TwoSets ==
  rstatus = "ok" =>
    /\ \A f \in FrameIds :
         /\ f \in YoungSet(rep) <=>
              (1 <= rep.access_times_[f] /\ rep.access_times_[f] < rep.k_)
         /\ f \in MatureSet(rep) <=> rep.access_times_[f] >= rep.k_
    /\ Cardinality(YoungSet(rep)) = Len(rep.lru_less_k_)
    /\ Cardinality(MatureSet(rep)) = Len(rep.lru_k_)
    /\ rep.less_k_map_ = YoungSet(rep)
    /\ rep.k_map_ = MatureSet(rep)

\* the last n elements of a sequence (all of it when it is shorter)
LastN(s, n) == SubSeq(s, IF Len(s) > n THEN Len(s) - n + 1 ELSE 1, Len(s))

\* C27: whenever a call has returned, the history of a frame holds the
\* min(access count, k_) most recent timestamps of its accesses since it
\* became tracked, oldest first and strictly ascending
C27_History ==
  rstatus = "ok" =>
    \A f \in FrameIds :
      LET h == rep.history_list_[f]
          n == IF rep.access_times_[f] < rep.k_ THEN rep.access_times_[f] ELSE rep.k_
      IN /\ h = LastN(racc[f], n)
         /\ \A i \in 1 .. (Len(h) - 1) : h[i] < h[i + 1]

(***************************************************************************)
(* Statements about the pages of the B+-tree.                              *)
(***************************************************************************)
\* the keys stored in the leaves below a page (in the page, for a leaf)
RECURSIVE SubtreeKeys(_, _)
SubtreeKeys(t, page_id) ==
  IF IsLeafPage(t.pages[page_id]) THEN PageKeys(t.pages[page_id])
  ELSE UNION {SubtreeKeys(t, c) : c \in Children(t.pages[page_id])}

\* the keys of page p are strictly ascending (from slot 1 on in an internal
\* page)
KeysAscending(p) ==
  \A i \in (IF IsLeafPage(p) THEN 0 ELSE 1) .. (GetSize(p) - 2) :
    KeyLess(KeyAt(p, i), KeyAt(p, i + 1))

\* the keys below each child of internal page p lie within the child's
\* bounds: at or above the key of its slot (slots 1 ..), below the key of
\* the next slot
ChildrenInBounds(t, p) ==
  \A i \in 0 .. (GetSize(p) - 1) : \A k \in SubtreeKeys(t, ValueAt(p, i)) :
    /\ i >= 1 => ~KeyLess(k, KeyAt(p, i))
    /\ i + 1 <= GetSize(p) - 1 => KeyLess(k, KeyAt(p, i + 1))

\* C28: in every page the keys are strictly ascending (from slot 1 on in an
\* internal page), the keys below every child of an internal page lie within
\* the bounds of the child's slot, and an Insert leaves every internal page
\* with the slot-0 child it had (the left half of a split keeps it)
C28_PageOrder ==
  /\ \A id \in DOMAIN tree.pages :
       /\ KeysAscending(tree.pages[id])
       /\ ~IsLeafPage(tree.pages[id]) => ChildrenInBounds(tree, tree.pages[id])
  /\ \A k \in TKeys : \A v \in TValues : \A o \in TreeInsertImpl(tree, k, v) :
       \A id \in DOMAIN tree.pages :
         ~IsLeafPage(tree.pages[id]) =>
           ValueAt(o.tree.pages[id], 0) = ValueAt(tree.pages[id], 0)

\* the internal pages whose array refers to page id
Referrers(t, id) ==
  {q \in DOMAIN t.pages : ~IsLeafPage(t.pages[q]) /\ id \in Children(t.pages[q])}

\* C29: the root's parent page id is INVALID_PAGE_ID, and the parent page id
\* of every other page is the id of the one internal page whose array refers
\* to it
C29_ParentIds ==
  \A id \in DOMAIN tree.pages :
    IF id = tree.root_page_id_
    THEN /\ tree.pages[id].parent_page_id_ = INVALID_PAGE_ID
         /\ Referrers(tree, id) = {}
    ELSE Referrers(tree, id) = {tree.pages[id].parent_page_id_}

\* (the root has been split as the full parent of a page split by the same
\* Insert: the tree has three levels, and an internal page made by that split
\* holds children that were moved to it)
C29_Witness ==
  /\ tree.root_page_id_ # INVALID_PAGE_ID
  /\ Height(tree) = 3
  /\ \E id \in DOMAIN tree.pages :
       /\ ~IsLeafPage(tree.pages[id])
       /\ id # tree.root_page_id_
       /\ \E c \in Children(tree.pages[id]) : c < id

(***************************************************************************)
(* Statements about the dirty flags of the UnpinPage calls.                *)
(***************************************************************************)
\* every UnpinPage call of the call that left t passed is_dirty = false
CleanUnpins(t) == \A i \in 1 .. Len(t.unpinned_) : ~t.unpinned_[i][2]

\* the pages that are new in t2 or differ in it from what they are in t
Modified(t, t2) ==
  {id \in DOMAIN t2.pages : id \notin DOMAIN t.pages \/ t2.pages[id] # t.pages[id]}

\* C30: the descents of GetValue, Begin() and Begin(key), the iterator's
\* increment and destruction and the Insert of a key that is stored make
\* UnpinPage calls with is_dirty = false only, and an Insert passes
\* is_dirty = true only for pages it has modified
C30_DirtyFlags ==
  /\ tree.root_page_id_ # INVALID_PAGE_ID =>
       /\ \A k \in TKeys : \A o \in GetValueImpl(tree, k) : CleanUnpins(o.t)
       /\ CleanUnpins(BeginPins(tree))
       /\ \A k \in TKeys : CleanUnpins(BeginAtPins(tree, k))
  /\ iter.live =>
       /\ CleanUnpins(IncrementPins(tree, iter))
       /\ CleanUnpins(DestroyPins(tree, iter))
  /\ \A k \in TKeys : \A v \in TValues : \A o \in TreeInsertImpl(tree, k, v) :
       /\ ~o.res => CleanUnpins(o.tree)
       /\ \A i \in 1 .. Len(o.tree.unpinned_) :
            o.tree.unpinned_[i][2] => o.tree.unpinned_[i][1] \in Modified(tree, o.tree)

(***************************************************************************)
(* Statements about the RecordAccess calls that fail.                      *)
(***************************************************************************)
\* C31: a RecordAccess that throws, for a frame id out of range or for the
\* first access of a frame while the replacer is at capacity and no tracked
\* frame is evictable, leaves the replacer exactly as it was before the call
C31_FailedAccess ==
  rstatus = "ok" =>
    \A f \in FrameIds :
      (\/ f \notin InRange
       \/ /\ ~Tracked(rep, f)
          /\ rep.curr_size_ = rep.max_size_
          /\ EvictableFrames(rep) = {}) =>
        \A o \in RecordAccessImpl(rep, f) : o.res = "throw" => o.rep = rep

====
